---- MODULE Spec2Model ----
(***************************************************************************)
(* glibc-tools.py: the multi-target build driver.  main() expands the     *)
(* requested tokens, Context.run builds one command per (target, stage),  *)
(* recreates the build directories, and runs the stage buckets one after  *)
(* the other in a thread pool, printing one line per completed command.   *)
(***************************************************************************)
EXTENDS Integers, Sequences, FiniteSets, Bags, TLC

(* ACTIONS with copylibs ahead of configure.                              *)
ACTIONS_copylibs_first ==
  << "copylibs", "configure", "make", "check",
     "check-abi", "update-abi", "bench-build", "list" >>

(* ACTIONS, glibc-tools.py:22-30 (the bare name is a reserved word here): *)
(* the order of this tuple is the order of the stage buckets in           *)
(* Context.run.                                                           *)
ACTIONS_ ==
  << "configure", "copylibs", "make", "check",
     "check-abi", "update-abi", "bench-build", "list" >>

(* The keys of Context.configs once add_all_configs has returned: the name *)
(* of every Config, in the order add_config stores them.                    *)
configs_keys ==
  <<
     "aarch64-linux-gnu",
     "aarch64_be-linux-gnu",
     "arc-linux-gnu",
     "arc-linux-gnuhf",
     "arceb-linux-gnu",
     "alpha-linux-gnu",
     "arm-linux-gnueabi",
     "arm-linux-gnueabihf",
     "armeb-linux-gnueabihf",
     "hppa-linux-gnu",
     "ia64-linux-gnu",
     "i686-gnu",
     "m68k-linux-gnu",
     "m68k-linux-gnu-coldfire",
     "microblaze-linux-gnu",
     "microblazeel-linux-gnu",
     "mips64-linux-gnu",
     "mips64-linux-gnu-soft",
     "mips64el-linux-gnu",
     "nios2-linux-gnu",
     "or1k-linux-gnu-soft",
     "powerpc-linux-gnu-soft",
     "powerpc-linux-gnu",
     "powerpc64-linux-gnu",
     "powerpc64le-linux-gnu",
     "riscv32-linux-gnu-rv32imac-ilp32",
     "riscv32-linux-gnu-rv32imafdc-ilp32",
     "riscv32-linux-gnu-rv32imafdc-ilp32d",
     "riscv64-linux-gnu-rv64imac-lp64",
     "riscv64-linux-gnu-rv64imafdc-lp64",
     "riscv64-linux-gnu-rv64imafdc-lp64d",
     "s390x-linux-gnu",
     "csky-linux-gnuabiv2-soft",
     "csky-linux-gnuabiv2",
     "sh4-linux-gnu",
     "sh4eb-linux-gnu",
     "sh4-linux-gnu-soft",
     "sh4eb-linux-gnu-soft",
     "sparc64-linux-gnu",
     "x86_64-linux-gnu"
  >>

(* The keys of Context.glibc_configs once add_all_configs has returned,    *)
(* glibc-tools.py:215-456: the name of every Glibc of every Config, in    *)
(* the order add_config stores them.                                      *)
glibc_configs_keys ==
  <<
     "aarch64-linux-gnu",
     "aarch64_be-linux-gnu",
     "arc-linux-gnu",
     "arc-linux-gnuhf",
     "arceb-linux-gnu",
     "alpha-linux-gnu",
     "alpha-linux-gnu-ev6",
     "arm-linux-gnueabi",
     "armv7-linux-gnueabi",
     "arm-linux-gnueabihf",
     "armv5-linux-gnueabihf",
     "armv6-linux-gnueabihf",
     "armv6t2-linux-gnueabihf",
     "armv7-linux-gnueabihf",
     "armv7-thumb-linux-gnueabihf",
     "arm-linux-gnueabihf-armv7-disable-multi-arch",
     "armv7-neon-linux-gnueabihf",
     "armv7-neonhard-linux-gnueabihf",
     "armeb-linux-gnueabihf",
     "armeb-v5-linux-gnueabihf",
     "armeb-v6-linux-gnueabihf",
     "armeb-v6t2-linux-gnueabihf",
     "armeb-v7-linux-gnueabihf",
     "armeb-linux-gnueabihf-armv7-disable-multi-arch",
     "armeb-v7neon-linux-gnueabihf",
     "armeb-v7neonhard-linux-gnueabihf",
     "hppa-linux-gnu",
     "ia64-linux-gnu",
     "i686-gnu",
     "m68k-linux-gnu",
     "m68k-linux-gnu-coldfire",
     "microblaze-linux-gnu",
     "microblazeel-linux-gnu",
     "mips64-n32-linux-gnu",
     "mips-linux-gnu",
     "mips-linux-gnu-mips16",
     "mips64-linux-gnu",
     "mips-linux-gnu-soft",
     "mips64el-n32-linux-gnu",
     "mipsel-linux-gnu",
     "mips64el-linux-gnu",
     "nios2-linux-gnu",
     "or1k-linux-gnu-soft",
     "powerpc-linux-gnu-soft",
     "powerpc-linux-gnu",
     "powerpc-linux-gnu-power4",
     "powerpc-linux-gnu-power5",
     "powerpc-linux-gnu-power5+",
     "powerpc-linux-gnu-power6",
     "powerpc-linux-gnu-power6x",
     "powerpc-linux-gnu-power7",
     "powerpc-linux-gnu-power8",
     "powerpc-linux-gnu-power9",
     "powerpc-linux-gnu-power10",
     "powerpc-linux-gnu-power4-disable-multi-arch",
     "powerpc-linux-gnu-power5-disable-multi-arch",
     "powerpc-linux-gnu-power5+-disable-multi-arch",
     "powerpc-linux-gnu-power6-disable-multi-arch",
     "powerpc-linux-gnu-power6x-disable-multi-arch",
     "powerpc-linux-gnu-power7-disable-multi-arch",
     "powerpc-linux-gnu-power8-disable-multi-arch",
     "powerpc-linux-gnu-disable-multi-arch",
     "powerpc64-linux-gnu",
     "powerpc64-linux-gnu-power4",
     "powerpc64-linux-gnu-power5",
     "powerpc64-linux-gnu-power5+",
     "powerpc64-linux-gnu-power6",
     "powerpc64-linux-gnu-power6x",
     "powerpc64-linux-gnu-power7",
     "powerpc64-linux-gnu-power8",
     "powerpc64-linux-gnu-power4-disable-multi-arch",
     "powerpc64-linux-gnu-power5-disable-multi-arch",
     "powerpc64-linux-gnu-power5+-disable-multi-arch",
     "powerpc64-linux-gnu-power6-disable-multi-arch",
     "powerpc64-linux-gnu-power6x-disable-multi-arch",
     "powerpc64-linux-gnu-power7-disable-multi-arch",
     "powerpc64-linux-gnu-power8-disable-multi-arch",
     "powerpc64-linux-gnu-disable-multi-arch",
     "powerpc64le-linux-gnu",
     "powerpc64le-linux-gnu-power8",
     "powerpc64le-linux-gnu-power9",
     "powerpc64le-linux-gnu-power10",
     "powerpc64le-linux-gnu-power7-disable-multi-arch",
     "powerpc64le-linux-gnu-power8-disable-multi-arch",
     "powerpc64le-linux-gnu-power9-disable-multi-arch",
     "powerpc64le-linux-gnu-power10-disable-multi-arch",
     "powerpc64le-linux-gnu-disable-multi-arch",
     "riscv32-linux-gnu-rv32imac-ilp32",
     "riscv32-linux-gnu-rv32imafdc-ilp32",
     "riscv32-linux-gnu-rv32imafdc-ilp32d",
     "riscv64-linux-gnu-rv64imac-lp64",
     "riscv64-linux-gnu-rv64imafdc-lp64",
     "riscv64-linux-gnu-rv64imafdc-lp64d",
     "s390x-linux-gnu",
     "s390x-linux-gnu-z900",
     "s390x-linux-gnu-z10",
     "s390x-linux-gnu-z196",
     "s390-linux-gnu",
     "csky-linux-gnuabiv2-soft",
     "csky-linux-gnuabiv2",
     "sh4-linux-gnu",
     "sh4eb-linux-gnu",
     "sh4-linux-gnu-soft",
     "sh4eb-linux-gnu-soft",
     "sparc64-linux-gnu",
     "sparc-linux-gnu",
     "sparcv8-linux-gnu",
     "sparcv9-linux-gnu",
     "sparc64-linux-gnu-disable-multi-arch",
     "sparcv9-linux-gnu-disable-multi-arch",
     "x86_64-linux-gnu",
     "x86_64-linux-gnu-x32",
     "i686-linux-gnu",
     "x86_64-linux-gnu-v2",
     "x86_64-linux-gnu-v3",
     "x86_64-linux-gnu-v4",
     "x86_64-linux-gnu-disable-multi-arch",
     "i686-linux-gnu-disable-multi-arch",
     "i486-linux-gnu",
     "i586-linux-gnu",
     "i686-linux-gnu-fp"
  >>

(* Context.glibc_configs, as the set of its keys.                         *)
glibc_configs ==
  { glibc_configs_keys[n] : n \in 1..Len(glibc_configs_keys) }

(* sorted(self.glibc_configs.keys()), glibc-tools.py:178: the keys in     *)
(* the order of Python's string comparison.                               *)
sorted_glibc_configs ==
  <<
     "aarch64-linux-gnu",
     "aarch64_be-linux-gnu",
     "alpha-linux-gnu",
     "alpha-linux-gnu-ev6",
     "arc-linux-gnu",
     "arc-linux-gnuhf",
     "arceb-linux-gnu",
     "arm-linux-gnueabi",
     "arm-linux-gnueabihf",
     "arm-linux-gnueabihf-armv7-disable-multi-arch",
     "armeb-linux-gnueabihf",
     "armeb-linux-gnueabihf-armv7-disable-multi-arch",
     "armeb-v5-linux-gnueabihf",
     "armeb-v6-linux-gnueabihf",
     "armeb-v6t2-linux-gnueabihf",
     "armeb-v7-linux-gnueabihf",
     "armeb-v7neon-linux-gnueabihf",
     "armeb-v7neonhard-linux-gnueabihf",
     "armv5-linux-gnueabihf",
     "armv6-linux-gnueabihf",
     "armv6t2-linux-gnueabihf",
     "armv7-linux-gnueabi",
     "armv7-linux-gnueabihf",
     "armv7-neon-linux-gnueabihf",
     "armv7-neonhard-linux-gnueabihf",
     "armv7-thumb-linux-gnueabihf",
     "csky-linux-gnuabiv2",
     "csky-linux-gnuabiv2-soft",
     "hppa-linux-gnu",
     "i486-linux-gnu",
     "i586-linux-gnu",
     "i686-gnu",
     "i686-linux-gnu",
     "i686-linux-gnu-disable-multi-arch",
     "i686-linux-gnu-fp",
     "ia64-linux-gnu",
     "m68k-linux-gnu",
     "m68k-linux-gnu-coldfire",
     "microblaze-linux-gnu",
     "microblazeel-linux-gnu",
     "mips-linux-gnu",
     "mips-linux-gnu-mips16",
     "mips-linux-gnu-soft",
     "mips64-linux-gnu",
     "mips64-n32-linux-gnu",
     "mips64el-linux-gnu",
     "mips64el-n32-linux-gnu",
     "mipsel-linux-gnu",
     "nios2-linux-gnu",
     "or1k-linux-gnu-soft",
     "powerpc-linux-gnu",
     "powerpc-linux-gnu-disable-multi-arch",
     "powerpc-linux-gnu-power10",
     "powerpc-linux-gnu-power4",
     "powerpc-linux-gnu-power4-disable-multi-arch",
     "powerpc-linux-gnu-power5",
     "powerpc-linux-gnu-power5+",
     "powerpc-linux-gnu-power5+-disable-multi-arch",
     "powerpc-linux-gnu-power5-disable-multi-arch",
     "powerpc-linux-gnu-power6",
     "powerpc-linux-gnu-power6-disable-multi-arch",
     "powerpc-linux-gnu-power6x",
     "powerpc-linux-gnu-power6x-disable-multi-arch",
     "powerpc-linux-gnu-power7",
     "powerpc-linux-gnu-power7-disable-multi-arch",
     "powerpc-linux-gnu-power8",
     "powerpc-linux-gnu-power8-disable-multi-arch",
     "powerpc-linux-gnu-power9",
     "powerpc-linux-gnu-soft",
     "powerpc64-linux-gnu",
     "powerpc64-linux-gnu-disable-multi-arch",
     "powerpc64-linux-gnu-power4",
     "powerpc64-linux-gnu-power4-disable-multi-arch",
     "powerpc64-linux-gnu-power5",
     "powerpc64-linux-gnu-power5+",
     "powerpc64-linux-gnu-power5+-disable-multi-arch",
     "powerpc64-linux-gnu-power5-disable-multi-arch",
     "powerpc64-linux-gnu-power6",
     "powerpc64-linux-gnu-power6-disable-multi-arch",
     "powerpc64-linux-gnu-power6x",
     "powerpc64-linux-gnu-power6x-disable-multi-arch",
     "powerpc64-linux-gnu-power7",
     "powerpc64-linux-gnu-power7-disable-multi-arch",
     "powerpc64-linux-gnu-power8",
     "powerpc64-linux-gnu-power8-disable-multi-arch",
     "powerpc64le-linux-gnu",
     "powerpc64le-linux-gnu-disable-multi-arch",
     "powerpc64le-linux-gnu-power10",
     "powerpc64le-linux-gnu-power10-disable-multi-arch",
     "powerpc64le-linux-gnu-power7-disable-multi-arch",
     "powerpc64le-linux-gnu-power8",
     "powerpc64le-linux-gnu-power8-disable-multi-arch",
     "powerpc64le-linux-gnu-power9",
     "powerpc64le-linux-gnu-power9-disable-multi-arch",
     "riscv32-linux-gnu-rv32imac-ilp32",
     "riscv32-linux-gnu-rv32imafdc-ilp32",
     "riscv32-linux-gnu-rv32imafdc-ilp32d",
     "riscv64-linux-gnu-rv64imac-lp64",
     "riscv64-linux-gnu-rv64imafdc-lp64",
     "riscv64-linux-gnu-rv64imafdc-lp64d",
     "s390-linux-gnu",
     "s390x-linux-gnu",
     "s390x-linux-gnu-z10",
     "s390x-linux-gnu-z196",
     "s390x-linux-gnu-z900",
     "sh4-linux-gnu",
     "sh4-linux-gnu-soft",
     "sh4eb-linux-gnu",
     "sh4eb-linux-gnu-soft",
     "sparc-linux-gnu",
     "sparc64-linux-gnu",
     "sparc64-linux-gnu-disable-multi-arch",
     "sparcv8-linux-gnu",
     "sparcv9-linux-gnu",
     "sparcv9-linux-gnu-disable-multi-arch",
     "x86_64-linux-gnu",
     "x86_64-linux-gnu-disable-multi-arch",
     "x86_64-linux-gnu-v2",
     "x86_64-linux-gnu-v3",
     "x86_64-linux-gnu-v4",
     "x86_64-linux-gnu-x32"
  >>

(* SPECIAL_LISTS, glibc-tools.py:566-737: group alias -> member list.     *)
SPECIAL_LISTS ==
     "linux" :> <<
       "aarch64-linux-gnu",
       "alpha-linux-gnu",
       "arc-linux-gnuhf",
       "arm-linux-gnueabihf",
       "csky-linux-gnuabiv2",
       "hppa-linux-gnu",
       "i686-linux-gnu",
       "ia64-linux-gnu",
       "m68k-linux-gnu",
       "microblaze-linux-gnu",
       "mips64-linux-gnu",
       "mips64-n32-linux-gnu",
       "mips-linux-gnu",
       "nios2-linux-gnu",
       "or1k-linux-gnu-soft",
       "powerpc64le-linux-gnu",
       "powerpc64-linux-gnu",
       "powerpc-linux-gnu",
       "riscv32-linux-gnu-rv32imafdc-ilp32d",
       "riscv64-linux-gnu-rv64imafdc-lp64d",
       "s390-linux-gnu",
       "s390x-linux-gnu",
       "sh4-linux-gnu",
       "sparc64-linux-gnu",
       "sparcv9-linux-gnu",
       "x86_64-linux-gnu",
       "x86_64-linux-gnu-x32" >>
  @@ "abi" :> <<
       "aarch64-linux-gnu",
       "alpha-linux-gnu",
       "arc-linux-gnuhf",
       "arm-linux-gnueabihf",
       "armeb-linux-gnueabihf",
       "csky-linux-gnuabiv2",
       "hppa-linux-gnu",
       "i686-linux-gnu",
       "ia64-linux-gnu",
       "m68k-linux-gnu",
       "m68k-linux-gnu-coldfire",
       "microblaze-linux-gnu",
       "microblazeel-linux-gnu",
       "mips64-linux-gnu",
       "mips64-n32-linux-gnu",
       "mips-linux-gnu",
       "mips-linux-gnu-soft",
       "nios2-linux-gnu",
       "or1k-linux-gnu-soft",
       "powerpc64le-linux-gnu",
       "powerpc64-linux-gnu",
       "powerpc-linux-gnu",
       "powerpc-linux-gnu-soft",
       "riscv32-linux-gnu-rv32imafdc-ilp32d",
       "riscv64-linux-gnu-rv64imafdc-lp64d",
       "s390-linux-gnu",
       "s390x-linux-gnu",
       "sh4-linux-gnu",
       "sh4eb-linux-gnu",
       "sparc64-linux-gnu",
       "sparcv9-linux-gnu",
       "x86_64-linux-gnu",
       "x86_64-linux-gnu-x32",
       "i686-gnu" >>
  @@ "abi32" :> <<
       "arm-linux-gnueabihf",
       "armeb-linux-gnueabihf",
       "csky-linux-gnuabiv2",
       "hppa-linux-gnu",
       "i686-linux-gnu",
       "m68k-linux-gnu",
       "m68k-linux-gnu-coldfire",
       "microblaze-linux-gnu",
       "microblazeel-linux-gnu",
       "mips64-n32-linux-gnu",
       "mips-linux-gnu",
       "mips-linux-gnu-soft",
       "nios2-linux-gnu",
       "or1k-linux-gnu-soft",
       "powerpc-linux-gnu",
       "powerpc-linux-gnu-soft",
       "s390-linux-gnu",
       "sh4-linux-gnu",
       "sh4eb-linux-gnu",
       "sparcv9-linux-gnu" >>
  @@ "powerpc64le" :> <<
       "powerpc64le-linux-gnu",
       "powerpc64le-linux-gnu-disable-multi-arch",
       "powerpc64le-linux-gnu-power10",
       "powerpc64le-linux-gnu-power9",
       "powerpc64le-linux-gnu-power8",
       "powerpc64le-linux-gnu-power10-disable-multi-arch",
       "powerpc64le-linux-gnu-power9-disable-multi-arch",
       "powerpc64le-linux-gnu-power8-disable-multi-arch" >>
  @@ "powerpc64" :> <<
       "powerpc64-linux-gnu-power8",
       "powerpc64-linux-gnu-power7",
       "powerpc64-linux-gnu-power6x",
       "powerpc64-linux-gnu-power6",
       "powerpc64-linux-gnu-power5+",
       "powerpc64-linux-gnu-power5",
       "powerpc64-linux-gnu-power4",
       "powerpc64-linux-gnu-power8-disable-multi-arch",
       "powerpc64-linux-gnu-power7-disable-multi-arch",
       "powerpc64-linux-gnu-power6x-disable-multi-arch",
       "powerpc64-linux-gnu-power6-disable-multi-arch",
       "powerpc64-linux-gnu-power5+-disable-multi-arch",
       "powerpc64-linux-gnu-power5-disable-multi-arch",
       "powerpc64-linux-gnu-power4-disable-multi-arch",
       "powerpc64-linux-gnu",
       "powerpc64-linux-gnu-disable-multi-arch" >>
  @@ "powerpc" :> <<
       "powerpc-linux-gnu-power8",
       "powerpc-linux-gnu-power7",
       "powerpc-linux-gnu-power6x",
       "powerpc-linux-gnu-power6",
       "powerpc-linux-gnu-power5+",
       "powerpc-linux-gnu-power5",
       "powerpc-linux-gnu-power4",
       "powerpc-linux-gnu-power8-disable-multi-arch",
       "powerpc-linux-gnu-power7-disable-multi-arch",
       "powerpc-linux-gnu-power6x-disable-multi-arch",
       "powerpc-linux-gnu-power6-disable-multi-arch",
       "powerpc-linux-gnu-power5+-disable-multi-arch",
       "powerpc-linux-gnu-power5-disable-multi-arch",
       "powerpc-linux-gnu-power4-disable-multi-arch",
       "powerpc-linux-gnu" >>
  @@ "zseries" :> <<
       "s390-linux-gnu",
       "s390x-linux-gnu",
       "s390x-linux-gnu-z10",
       "s390x-linux-gnu-z196",
       "s390x-linux-gnu-z900" >>
  @@ "arm" :> <<
       "arm-linux-gnueabihf",
       "arm-linux-gnueabihf-armv7-disable-multi-arch",
       "armv5-linux-gnueabihf",
       "armv6-linux-gnueabihf",
       "armv6t2-linux-gnueabihf",
       "armv7-linux-gnueabihf",
       "armv7-neon-linux-gnueabihf",
       "armv7-neonhard-linux-gnueabihf",
       "armv7-thumb-linux-gnueabihf" >>
  @@ "armeb" :> <<
       "armeb-linux-gnueabihf",
       "armeb-v5-linux-gnueabihf",
       "armeb-v6-linux-gnueabihf",
       "armeb-v6t2-linux-gnueabihf",
       "armeb-v7-linux-gnueabihf",
       "armeb-v7neon-linux-gnueabihf",
       "armeb-v7neonhard-linux-gnueabihf" >>


(* ------------------------------------------------------------------------ *)
(* The catalog: Config, Glibc and Context.add_config.                       *)

(* Python's None and a value that is present: an optional argument is a     *)
(* sequence of length at most one.                                          *)
None == << >>

Some(x) == << x >>

(* One dict of a glibcs=[...] or extra_glibcs=[...] argument: the keyword   *)
(* arguments of Glibc.__init__ (os_name is never passed).                   *)
G(arch, variant, cfg, ccopts) ==
  [ arch |-> arch, os_name |-> None, variant |-> variant, cfg |-> cfg,
    ccopts |-> ccopts ]

(* The keyword arguments of one add_config call.                            *)
Args(arch, os_name, variant, glibcs, extra_glibcs) ==
  [ arch |-> arch, os_name |-> os_name, variant |-> variant,
    glibcs |-> glibcs, extra_glibcs |-> extra_glibcs ]

(* The add_config calls of add_all_configs, glibc-tools.py:229-456, in      *)
(* program order, each written out as the record Args gives, and each dict  *)
(* of glibcs and extra_glibcs as the record G gives: an argument that is    *)
(* not passed is << >> (None), one that is passed is << value >> (Some).    *)
ALL_CONFIGS ==
  <<
     [ arch |-> "aarch64", os_name |-> "linux-gnu", variant |-> << >>,
       glibcs |-> << >>,
       extra_glibcs |-> << >> ],
     [ arch |-> "aarch64_be", os_name |-> "linux-gnu", variant |-> << >>,
       glibcs |-> << >>,
       extra_glibcs |-> << >> ],
     [ arch |-> "arc", os_name |-> "linux-gnu", variant |-> << >>,
       glibcs |-> << >>,
       extra_glibcs |-> << >> ],
     [ arch |-> "arc", os_name |-> "linux-gnuhf", variant |-> << >>,
       glibcs |-> << >>,
       extra_glibcs |-> << >> ],
     [ arch |-> "arceb", os_name |-> "linux-gnu", variant |-> << >>,
       glibcs |-> << >>,
       extra_glibcs |-> << >> ],
     [ arch |-> "alpha", os_name |-> "linux-gnu", variant |-> << >>,
       glibcs |-> << << [ arch |-> << >>, os_name |-> << >>, variant |-> << >>, cfg |-> << >>, ccopts |-> << >> ],
               [ arch |-> << >>, os_name |-> << >>, variant |-> << "ev6" >>, cfg |-> << >>, ccopts |-> << "-mcpu=ev6" >> ] >> >>,
       extra_glibcs |-> << >> ],
     [ arch |-> "arm", os_name |-> "linux-gnueabi", variant |-> << >>,
       glibcs |-> << << [ arch |-> << >>, os_name |-> << >>, variant |-> << >>, cfg |-> << >>, ccopts |-> << >> ],
               [ arch |-> << "armv7" >>, os_name |-> << >>, variant |-> << >>, cfg |-> << >>, ccopts |-> << "-march=armv7-a" >> ] >> >>,
       extra_glibcs |-> << >> ],
     [ arch |-> "arm", os_name |-> "linux-gnueabihf", variant |-> << >>,
       glibcs |-> << << [ arch |-> << >>, os_name |-> << >>, variant |-> << >>, cfg |-> << >>, ccopts |-> << >> ],
               [ arch |-> << "armv5" >>, os_name |-> << >>, variant |-> << >>, cfg |-> << >>, ccopts |-> << "-march=armv5te -mfpu=vfpv3" >> ],
               [ arch |-> << "armv6" >>, os_name |-> << >>, variant |-> << >>, cfg |-> << >>, ccopts |-> << "-march=armv6 -mfpu=vfpv3" >> ],
               [ arch |-> << "armv6t2" >>, os_name |-> << >>, variant |-> << >>, cfg |-> << >>, ccopts |-> << "-march=armv6t2 -mfpu=vfpv3" >> ],
               [ arch |-> << "armv7" >>, os_name |-> << >>, variant |-> << >>, cfg |-> << >>, ccopts |-> << "-march=armv7-a -mfpu=vfpv3" >> ],
               [ arch |-> << "armv7-thumb" >>, os_name |-> << >>, variant |-> << >>, cfg |-> << >>, ccopts |-> << "-march=armv7-a -mfpu=vfpv3 -mthumb" >> ],
               [ arch |-> << >>, os_name |-> << >>, variant |-> << "armv7-disable-multi-arch" >>, cfg |-> << << "--disable-multi-arch" >> >>, ccopts |-> << "-march=armv7-a -mfpu=vfpv3" >> ],
               [ arch |-> << "armv7-neon" >>, os_name |-> << >>, variant |-> << >>, cfg |-> << >>, ccopts |-> << "-march=armv7-a -mfpu=neon" >> ],
               [ arch |-> << "armv7-neonhard" >>, os_name |-> << >>, variant |-> << >>, cfg |-> << >>, ccopts |-> << "-march=armv7-a -mfpu=neon -mfloat-abi=hard" >> ] >> >>,
       extra_glibcs |-> << >> ],
     [ arch |-> "armeb", os_name |-> "linux-gnueabihf", variant |-> << >>,
       glibcs |-> << << [ arch |-> << >>, os_name |-> << >>, variant |-> << >>, cfg |-> << >>, ccopts |-> << >> ],
               [ arch |-> << "armeb-v5" >>, os_name |-> << >>, variant |-> << >>, cfg |-> << >>, ccopts |-> << "-march=armv5te -mfpu=vfpv3" >> ],
               [ arch |-> << "armeb-v6" >>, os_name |-> << >>, variant |-> << >>, cfg |-> << >>, ccopts |-> << "-march=armv6 -mfpu=vfpv3" >> ],
               [ arch |-> << "armeb-v6t2" >>, os_name |-> << >>, variant |-> << >>, cfg |-> << >>, ccopts |-> << "-march=armv6t2 -mfpu=vfpv3" >> ],
               [ arch |-> << "armeb-v7" >>, os_name |-> << >>, variant |-> << >>, cfg |-> << >>, ccopts |-> << "-march=armv7-a -mfpu=vfpv3" >> ],
               [ arch |-> << >>, os_name |-> << >>, variant |-> << "armv7-disable-multi-arch" >>, cfg |-> << << "--disable-multi-arch" >> >>, ccopts |-> << "-march=armv7-a -mfpu=vfpv3" >> ],
               [ arch |-> << "armeb-v7neon" >>, os_name |-> << >>, variant |-> << >>, cfg |-> << >>, ccopts |-> << "-march=armv7-a -mfpu=neon" >> ],
               [ arch |-> << "armeb-v7neonhard" >>, os_name |-> << >>, variant |-> << >>, cfg |-> << >>, ccopts |-> << "-march=armv7-a -mfpu=neon -mfloat-abi=hard" >> ] >> >>,
       extra_glibcs |-> << >> ],
     [ arch |-> "hppa", os_name |-> "linux-gnu", variant |-> << >>,
       glibcs |-> << >>,
       extra_glibcs |-> << >> ],
     [ arch |-> "ia64", os_name |-> "linux-gnu", variant |-> << >>,
       glibcs |-> << >>,
       extra_glibcs |-> << >> ],
     [ arch |-> "i686", os_name |-> "gnu", variant |-> << >>,
       glibcs |-> << >>,
       extra_glibcs |-> << >> ],
     [ arch |-> "m68k", os_name |-> "linux-gnu", variant |-> << >>,
       glibcs |-> << >>,
       extra_glibcs |-> << >> ],
     [ arch |-> "m68k", os_name |-> "linux-gnu", variant |-> << "coldfire" >>,
       glibcs |-> << >>,
       extra_glibcs |-> << >> ],
     [ arch |-> "microblaze", os_name |-> "linux-gnu", variant |-> << >>,
       glibcs |-> << >>,
       extra_glibcs |-> << >> ],
     [ arch |-> "microblazeel", os_name |-> "linux-gnu", variant |-> << >>,
       glibcs |-> << >>,
       extra_glibcs |-> << >> ],
     [ arch |-> "mips64", os_name |-> "linux-gnu", variant |-> << >>,
       glibcs |-> << << [ arch |-> << "mips64-n32" >>, os_name |-> << >>, variant |-> << >>, cfg |-> << >>, ccopts |-> << >> ],
               [ arch |-> << "mips" >>, os_name |-> << >>, variant |-> << >>, cfg |-> << >>, ccopts |-> << "-mabi=32" >> ],
               [ arch |-> << "mips" >>, os_name |-> << >>, variant |-> << "mips16" >>, cfg |-> << >>, ccopts |-> << "-mabi=32 -mips16" >> ],
               [ arch |-> << "mips64" >>, os_name |-> << >>, variant |-> << >>, cfg |-> << >>, ccopts |-> << "-mabi=64" >> ] >> >>,
       extra_glibcs |-> << >> ],
     [ arch |-> "mips64", os_name |-> "linux-gnu", variant |-> << "soft" >>,
       glibcs |-> << << [ arch |-> << "mips" >>, os_name |-> << >>, variant |-> << "soft" >>, cfg |-> << >>, ccopts |-> << "-mabi=32" >> ] >> >>,
       extra_glibcs |-> << >> ],
     [ arch |-> "mips64el", os_name |-> "linux-gnu", variant |-> << >>,
       glibcs |-> << << [ arch |-> << "mips64el-n32" >>, os_name |-> << >>, variant |-> << >>, cfg |-> << >>, ccopts |-> << >> ],
               [ arch |-> << "mipsel" >>, os_name |-> << >>, variant |-> << >>, cfg |-> << >>, ccopts |-> << "-mabi=32" >> ],
               [ arch |-> << "mips64el" >>, os_name |-> << >>, variant |-> << >>, cfg |-> << >>, ccopts |-> << "-mabi=64" >> ] >> >>,
       extra_glibcs |-> << >> ],
     [ arch |-> "nios2", os_name |-> "linux-gnu", variant |-> << >>,
       glibcs |-> << >>,
       extra_glibcs |-> << >> ],
     [ arch |-> "or1k", os_name |-> "linux-gnu", variant |-> << "soft" >>,
       glibcs |-> << >>,
       extra_glibcs |-> << >> ],
     [ arch |-> "powerpc", os_name |-> "linux-gnu", variant |-> << "soft" >>,
       glibcs |-> << >>,
       extra_glibcs |-> << >> ],
     [ arch |-> "powerpc", os_name |-> "linux-gnu", variant |-> << >>,
       glibcs |-> << << [ arch |-> << >>, os_name |-> << >>, variant |-> << >>, cfg |-> << >>, ccopts |-> << >> ],
               [ arch |-> << >>, os_name |-> << >>, variant |-> << "power4" >>, cfg |-> << << "--with-cpu=power4" >> >>, ccopts |-> << "-mcpu=power4" >> ],
               [ arch |-> << >>, os_name |-> << >>, variant |-> << "power5" >>, cfg |-> << << "--with-cpu=power5" >> >>, ccopts |-> << "-mcpu=power5" >> ],
               [ arch |-> << >>, os_name |-> << >>, variant |-> << "power5+" >>, cfg |-> << << "--with-cpu=power5+" >> >>, ccopts |-> << "-mcpu=power5+" >> ],
               [ arch |-> << >>, os_name |-> << >>, variant |-> << "power6" >>, cfg |-> << << "--with-cpu=power6" >> >>, ccopts |-> << "-mcpu=power6" >> ],
               [ arch |-> << >>, os_name |-> << >>, variant |-> << "power6x" >>, cfg |-> << << "--with-cpu=power6" >> >>, ccopts |-> << "-mcpu=power6" >> ],
               [ arch |-> << >>, os_name |-> << >>, variant |-> << "power7" >>, cfg |-> << << "--with-cpu=power7" >> >>, ccopts |-> << "-mcpu=power7" >> ],
               [ arch |-> << >>, os_name |-> << >>, variant |-> << "power8" >>, cfg |-> << << "--with-cpu=power8" >> >>, ccopts |-> << "-mcpu=power8" >> ],
               [ arch |-> << >>, os_name |-> << >>, variant |-> << "power9" >>, cfg |-> << << "--with-cpu=power9" >> >>, ccopts |-> << "-mcpu=power9" >> ],
               [ arch |-> << >>, os_name |-> << >>, variant |-> << "power10" >>, cfg |-> << << "--with-cpu=power10" >> >>, ccopts |-> << "-mcpu=power10" >> ],
               [ arch |-> << >>, os_name |-> << >>, variant |-> << "power4-disable-multi-arch" >>, cfg |-> << << "--with-cpu=power4", "--disable-multi-arch" >> >>, ccopts |-> << "-mcpu=power4" >> ],
               [ arch |-> << >>, os_name |-> << >>, variant |-> << "power5-disable-multi-arch" >>, cfg |-> << << "--with-cpu=power5", "--disable-multi-arch" >> >>, ccopts |-> << "-mcpu=power5" >> ],
               [ arch |-> << >>, os_name |-> << >>, variant |-> << "power5+-disable-multi-arch" >>, cfg |-> << << "--with-cpu=power5+", "--disable-multi-arch" >> >>, ccopts |-> << "-mcpu=power5+" >> ],
               [ arch |-> << >>, os_name |-> << >>, variant |-> << "power6-disable-multi-arch" >>, cfg |-> << << "--with-cpu=power6", "--disable-multi-arch" >> >>, ccopts |-> << "-mcpu=power6" >> ],
               [ arch |-> << >>, os_name |-> << >>, variant |-> << "power6x-disable-multi-arch" >>, cfg |-> << << "--with-cpu=power6x", "--disable-multi-arch" >> >>, ccopts |-> << "-mcpu=power6x" >> ],
               [ arch |-> << >>, os_name |-> << >>, variant |-> << "power7-disable-multi-arch" >>, cfg |-> << << "--with-cpu=power7", "--disable-multi-arch" >> >>, ccopts |-> << "-mcpu=power7" >> ],
               [ arch |-> << >>, os_name |-> << >>, variant |-> << "power8-disable-multi-arch" >>, cfg |-> << << "--with-cpu=power8", "--disable-multi-arch" >> >>, ccopts |-> << "-mcpu=power8" >> ],
               [ arch |-> << >>, os_name |-> << >>, variant |-> << "disable-multi-arch" >>, cfg |-> << << "--disable-multi-arch" >> >>, ccopts |-> << >> ] >> >>,
       extra_glibcs |-> << >> ],
     [ arch |-> "powerpc64", os_name |-> "linux-gnu", variant |-> << >>,
       glibcs |-> << << [ arch |-> << >>, os_name |-> << >>, variant |-> << >>, cfg |-> << >>, ccopts |-> << >> ],
               [ arch |-> << >>, os_name |-> << >>, variant |-> << "power4" >>, cfg |-> << << "--with-cpu=power4" >> >>, ccopts |-> << "-mcpu=power4" >> ],
               [ arch |-> << >>, os_name |-> << >>, variant |-> << "power5" >>, cfg |-> << << "--with-cpu=power5" >> >>, ccopts |-> << "-mcpu=power5" >> ],
               [ arch |-> << >>, os_name |-> << >>, variant |-> << "power5+" >>, cfg |-> << << "--with-cpu=power5+" >> >>, ccopts |-> << "-mcpu=power5+" >> ],
               [ arch |-> << >>, os_name |-> << >>, variant |-> << "power6" >>, cfg |-> << << "--with-cpu=power6" >> >>, ccopts |-> << "-mcpu=power6" >> ],
               [ arch |-> << >>, os_name |-> << >>, variant |-> << "power6x" >>, cfg |-> << << "--with-cpu=power6x" >> >>, ccopts |-> << "-mcpu=power6x" >> ],
               [ arch |-> << >>, os_name |-> << >>, variant |-> << "power7" >>, cfg |-> << << "--with-cpu=power7" >> >>, ccopts |-> << "-mcpu=power7" >> ],
               [ arch |-> << >>, os_name |-> << >>, variant |-> << "power8" >>, cfg |-> << << "--with-cpu=power8" >> >>, ccopts |-> << "-mcpu=power8" >> ],
               [ arch |-> << >>, os_name |-> << >>, variant |-> << "power4-disable-multi-arch" >>, cfg |-> << << "--with-cpu=power4", "--disable-multi-arch" >> >>, ccopts |-> << "-mcpu=power4" >> ],
               [ arch |-> << >>, os_name |-> << >>, variant |-> << "power5-disable-multi-arch" >>, cfg |-> << << "--with-cpu=power5", "--disable-multi-arch" >> >>, ccopts |-> << "-mcpu=power5" >> ],
               [ arch |-> << >>, os_name |-> << >>, variant |-> << "power5+-disable-multi-arch" >>, cfg |-> << << "--with-cpu=power5+", "--disable-multi-arch" >> >>, ccopts |-> << "-mcpu=power5+" >> ],
               [ arch |-> << >>, os_name |-> << >>, variant |-> << "power6-disable-multi-arch" >>, cfg |-> << << "--with-cpu=power6", "--disable-multi-arch" >> >>, ccopts |-> << "-mcpu=power6" >> ],
               [ arch |-> << >>, os_name |-> << >>, variant |-> << "power6x-disable-multi-arch" >>, cfg |-> << << "--with-cpu=power6x", "--disable-multi-arch" >> >>, ccopts |-> << "-mcpu=power6x" >> ],
               [ arch |-> << >>, os_name |-> << >>, variant |-> << "power7-disable-multi-arch" >>, cfg |-> << << "--with-cpu=power7", "--disable-multi-arch" >> >>, ccopts |-> << "-mcpu=power7" >> ],
               [ arch |-> << >>, os_name |-> << >>, variant |-> << "power8-disable-multi-arch" >>, cfg |-> << << "--with-cpu=power8", "--disable-multi-arch" >> >>, ccopts |-> << "-mcpu=power8" >> ],
               [ arch |-> << >>, os_name |-> << >>, variant |-> << "disable-multi-arch" >>, cfg |-> << << "--disable-multi-arch" >> >>, ccopts |-> << >> ] >> >>,
       extra_glibcs |-> << >> ],
     [ arch |-> "powerpc64le", os_name |-> "linux-gnu", variant |-> << >>,
       glibcs |-> << << [ arch |-> << >>, os_name |-> << >>, variant |-> << >>, cfg |-> << >>, ccopts |-> << >> ],
               [ arch |-> << >>, os_name |-> << >>, variant |-> << "power8" >>, cfg |-> << << "--with-cpu=power8" >> >>, ccopts |-> << "-mcpu=power8" >> ],
               [ arch |-> << >>, os_name |-> << >>, variant |-> << "power9" >>, cfg |-> << << "--with-cpu=power9" >> >>, ccopts |-> << "-mcpu=power9" >> ],
               [ arch |-> << >>, os_name |-> << >>, variant |-> << "power10" >>, cfg |-> << << "--with-cpu=power10" >> >>, ccopts |-> << "-mcpu=power10" >> ],
               [ arch |-> << >>, os_name |-> << >>, variant |-> << "power7-disable-multi-arch" >>, cfg |-> << << "--with-cpu=power8", "--disable-multi-arch" >> >>, ccopts |-> << "-mcpu=power7" >> ],
               [ arch |-> << >>, os_name |-> << >>, variant |-> << "power8-disable-multi-arch" >>, cfg |-> << << "--with-cpu=power8", "--disable-multi-arch" >> >>, ccopts |-> << "-mcpu=power8" >> ],
               [ arch |-> << >>, os_name |-> << >>, variant |-> << "power9-disable-multi-arch" >>, cfg |-> << << "--with-cpu=power9", "--disable-multi-arch" >> >>, ccopts |-> << "-mcpu=power9" >> ],
               [ arch |-> << >>, os_name |-> << >>, variant |-> << "power10-disable-multi-arch" >>, cfg |-> << << "--with-cpu=power10", "--disable-multi-arch" >> >>, ccopts |-> << "-mcpu=power10" >> ],
               [ arch |-> << >>, os_name |-> << >>, variant |-> << "disable-multi-arch" >>, cfg |-> << << "--disable-multi-arch" >> >>, ccopts |-> << >> ] >> >>,
       extra_glibcs |-> << >> ],
     [ arch |-> "riscv32", os_name |-> "linux-gnu", variant |-> << "rv32imac-ilp32" >>,
       glibcs |-> << >>,
       extra_glibcs |-> << >> ],
     [ arch |-> "riscv32", os_name |-> "linux-gnu", variant |-> << "rv32imafdc-ilp32" >>,
       glibcs |-> << >>,
       extra_glibcs |-> << >> ],
     [ arch |-> "riscv32", os_name |-> "linux-gnu", variant |-> << "rv32imafdc-ilp32d" >>,
       glibcs |-> << >>,
       extra_glibcs |-> << >> ],
     [ arch |-> "riscv64", os_name |-> "linux-gnu", variant |-> << "rv64imac-lp64" >>,
       glibcs |-> << >>,
       extra_glibcs |-> << >> ],
     [ arch |-> "riscv64", os_name |-> "linux-gnu", variant |-> << "rv64imafdc-lp64" >>,
       glibcs |-> << >>,
       extra_glibcs |-> << >> ],
     [ arch |-> "riscv64", os_name |-> "linux-gnu", variant |-> << "rv64imafdc-lp64d" >>,
       glibcs |-> << >>,
       extra_glibcs |-> << >> ],
     [ arch |-> "s390x", os_name |-> "linux-gnu", variant |-> << >>,
       glibcs |-> << << [ arch |-> << >>, os_name |-> << >>, variant |-> << >>, cfg |-> << >>, ccopts |-> << >> ],
               [ arch |-> << >>, os_name |-> << >>, variant |-> << "z900" >>, cfg |-> << >>, ccopts |-> << "-march=z900" >> ],
               [ arch |-> << >>, os_name |-> << >>, variant |-> << "z10" >>, cfg |-> << >>, ccopts |-> << "-march=z10" >> ],
               [ arch |-> << >>, os_name |-> << >>, variant |-> << "z196" >>, cfg |-> << >>, ccopts |-> << "-march=z196" >> ],
               [ arch |-> << "s390" >>, os_name |-> << >>, variant |-> << >>, cfg |-> << >>, ccopts |-> << "-m31" >> ] >> >>,
       extra_glibcs |-> << >> ],
     [ arch |-> "csky", os_name |-> "linux-gnuabiv2", variant |-> << "soft" >>,
       glibcs |-> << >>,
       extra_glibcs |-> << >> ],
     [ arch |-> "csky", os_name |-> "linux-gnuabiv2", variant |-> << >>,
       glibcs |-> << >>,
       extra_glibcs |-> << >> ],
     [ arch |-> "sh4", os_name |-> "linux-gnu", variant |-> << >>,
       glibcs |-> << >>,
       extra_glibcs |-> << >> ],
     [ arch |-> "sh4eb", os_name |-> "linux-gnu", variant |-> << >>,
       glibcs |-> << >>,
       extra_glibcs |-> << >> ],
     [ arch |-> "sh4", os_name |-> "linux-gnu", variant |-> << "soft" >>,
       glibcs |-> << >>,
       extra_glibcs |-> << >> ],
     [ arch |-> "sh4eb", os_name |-> "linux-gnu", variant |-> << "soft" >>,
       glibcs |-> << >>,
       extra_glibcs |-> << >> ],
     [ arch |-> "sparc64", os_name |-> "linux-gnu", variant |-> << >>,
       glibcs |-> << << [ arch |-> << >>, os_name |-> << >>, variant |-> << >>, cfg |-> << >>, ccopts |-> << "-mcpu=niagara" >> ],
               [ arch |-> << "sparc" >>, os_name |-> << >>, variant |-> << >>, cfg |-> << >>, ccopts |-> << "-m32 -mlong-double-128 -mcpu=leon3" >> ],
               [ arch |-> << "sparcv8" >>, os_name |-> << >>, variant |-> << >>, cfg |-> << >>, ccopts |-> << "-m32 -mlong-double-128 -mcpu=leon3" >> ],
               [ arch |-> << "sparcv9" >>, os_name |-> << >>, variant |-> << >>, cfg |-> << >>, ccopts |-> << "-m32 -mlong-double-128 -mcpu=v9" >> ] >> >>,
       extra_glibcs |-> << << [ arch |-> << >>, os_name |-> << >>, variant |-> << "disable-multi-arch" >>, cfg |-> << << "--disable-multi-arch" >> >>, ccopts |-> << >> ],
               [ arch |-> << "sparcv9" >>, os_name |-> << >>, variant |-> << "disable-multi-arch" >>, cfg |-> << << "--disable-multi-arch" >> >>, ccopts |-> << "-m32 -mlong-double-128 -mcpu=v9" >> ] >> >> ],
     [ arch |-> "x86_64", os_name |-> "linux-gnu", variant |-> << >>,
       glibcs |-> << << [ arch |-> << >>, os_name |-> << >>, variant |-> << >>, cfg |-> << >>, ccopts |-> << >> ],
               [ arch |-> << >>, os_name |-> << >>, variant |-> << "x32" >>, cfg |-> << >>, ccopts |-> << "-mx32" >> ],
               [ arch |-> << "i686" >>, os_name |-> << >>, variant |-> << >>, cfg |-> << >>, ccopts |-> << "-m32 -march=i686" >> ],
               [ arch |-> << >>, os_name |-> << >>, variant |-> << "v2" >>, cfg |-> << >>, ccopts |-> << "-march=x86-64-v2" >> ],
               [ arch |-> << >>, os_name |-> << >>, variant |-> << "v3" >>, cfg |-> << >>, ccopts |-> << "-march=x86-64-v3" >> ],
               [ arch |-> << >>, os_name |-> << >>, variant |-> << "v4" >>, cfg |-> << >>, ccopts |-> << "-march=x86-64-v4" >> ] >> >>,
       extra_glibcs |-> << << [ arch |-> << >>, os_name |-> << >>, variant |-> << "disable-multi-arch" >>, cfg |-> << << "--disable-multi-arch" >> >>, ccopts |-> << >> ],
               [ arch |-> << "i686" >>, os_name |-> << >>, variant |-> << "disable-multi-arch" >>, cfg |-> << << "--disable-multi-arch" >> >>, ccopts |-> << "-m32 -march=i686" >> ],
               [ arch |-> << "i486" >>, os_name |-> << >>, variant |-> << >>, cfg |-> << >>, ccopts |-> << "-m32 -march=i486" >> ],
               [ arch |-> << "i586" >>, os_name |-> << >>, variant |-> << >>, cfg |-> << >>, ccopts |-> << "-m32 -march=i586" >> ],
               [ arch |-> << "i686" >>, os_name |-> << >>, variant |-> << "fp" >>, cfg |-> << >>, ccopts |-> << "-m32 -march=i686 -fno-omit-frame-pointer" >> ] >> >> ]
  >>

(* A registration that is not in add_all_configs: a compiler Config with a  *)
(* name of its own whose only Glibc is named like the Glibc of the first    *)
(* call.                                                                    *)
ClashingConfig ==
  Args("aarch64", "linux-gnu", Some("lp64"),
       Some(<< G(None, None, None, None) >>),
       None)

(* The add_config calls a registration list is made of: call n of           *)
(* add_all_configs for n up to 40, then ClashingConfig.                     *)
ADD_CONFIG_CALLS ==
  ALL_CONFIGS \o << ClashingConfig >>

(* '%s-%s' % (a, b) and '%s-%s-%s' % (a, b, c) with an optional c.          *)
Dashed(a, b, c) ==
  IF c = None THEN a \o "-" \o b ELSE a \o "-" \o b \o "-" \o c[1]

(* A Glibc that takes the architecture of its Config whatever arch it is     *)
(* given.                                                                   *)
Glibc_compiler_arch(compiler, g) ==
  LET arch == compiler.arch
      os   == IF g.os_name = None THEN compiler.os ELSE g.os_name[1]
  IN  [ compiler     |-> [ name |-> compiler.name, triplet |-> compiler.triplet ],
        arch         |-> arch,
        os           |-> os,
        variant      |-> g.variant,
        name         |-> Dashed(arch, os, g.variant),
        triplet      |-> arch \o "-glibc-" \o os,
        host_triplet |-> arch \o "-" \o os,
        cfg          |-> IF g.cfg = None THEN << >> ELSE g.cfg[1],
        ccopts       |-> g.ccopts ]

(* Glibc.__init__, glibc-tools.py:466-490; compiler is the Config.          *)
Glibc(compiler, g) ==
  LET arch == IF g.arch = None THEN compiler.arch ELSE g.arch[1]
      os   == IF g.os_name = None THEN compiler.os ELSE g.os_name[1]
  IN  [ compiler     |-> [ name |-> compiler.name, triplet |-> compiler.triplet ],
        arch         |-> arch,
        os           |-> os,
        variant      |-> g.variant,
        name         |-> Dashed(arch, os, g.variant),
        triplet      |-> arch \o "-glibc-" \o os,
        host_triplet |-> arch \o "-" \o os,
        cfg          |-> IF g.cfg = None THEN << >> ELSE g.cfg[1],
        ccopts       |-> g.ccopts ]

(* [Glibc(self, **g) for g in glibcs], glibc-tools.py:93-94.                *)
RECURSIVE Glibcs(_, _)
Glibcs(compiler, glibcs) ==
  IF glibcs = << >> THEN << >>
  ELSE << Glibc(compiler, Head(glibcs)) >> \o Glibcs(compiler, Tail(glibcs))

(* Config.__init__, glibc-tools.py:77-96.                                   *)
Config(args) ==
  LET self == [ arch    |-> args.arch,
                os      |-> args.os_name,
                variant |-> args.variant,
                name    |-> Dashed(args.arch, args.os_name, args.variant),
                triplet |-> args.arch \o "-glibc-" \o args.os_name ]
      glibcs == IF args.glibcs = None
                THEN << G(None, args.variant, None, None) >>
                ELSE args.glibcs[1]
      extra_glibcs == IF args.extra_glibcs = None
                      THEN << >>
                      ELSE args.extra_glibcs[1]
      all == glibcs \o extra_glibcs
  IN  [ name       |-> self.name,
        all_glibcs |-> Glibcs(self, all) ]

(* cfg = Config(self, **args), glibc-tools.py:217, of each call of          *)
(* ADD_CONFIG_CALLS.                                                        *)
Configs ==
  [ n \in 1..Len(ADD_CONFIG_CALLS) |-> Config(ADD_CONFIG_CALLS[n]) ]

(* The Glibc objects the calls construct, in the order add_config meets     *)
(* them.                                                                    *)
RECURSIVE AllGlibcs(_)
AllGlibcs(calls) ==
  IF calls = << >> THEN << >>
  ELSE Configs[Head(calls)].all_glibcs \o AllGlibcs(Tail(calls))

(* ------------------------------------------------------------------------ *)
(* Strings: comparison, sorting, parsing.                                   *)

(* ord(c) for the characters that occur in the catalog's names and in the   *)
(* value of -p.                                                             *)
ord ==
  ("+" :> 43) @@ ("-" :> 45) @@ ("0" :> 48) @@ ("1" :> 49) @@ ("2" :> 50) @@
  ("3" :> 51) @@ ("4" :> 52) @@ ("5" :> 53) @@ ("6" :> 54) @@ ("7" :> 55) @@
  ("8" :> 56) @@ ("9" :> 57) @@ (":" :> 58) @@ ("_" :> 95) @@ ("a" :> 97) @@
  ("b" :> 98) @@ ("c" :> 99) @@ ("d" :> 100) @@ ("e" :> 101) @@
  ("f" :> 102) @@ ("g" :> 103) @@ ("h" :> 104) @@ ("i" :> 105) @@
  ("j" :> 106) @@ ("k" :> 107) @@ ("l" :> 108) @@ ("m" :> 109) @@
  ("n" :> 110) @@ ("o" :> 111) @@ ("p" :> 112) @@ ("q" :> 113) @@
  ("r" :> 114) @@ ("s" :> 115) @@ ("t" :> 116) @@ ("u" :> 117) @@
  ("v" :> 118) @@ ("w" :> 119) @@ ("x" :> 120) @@ ("y" :> 121) @@
  ("z" :> 122)

(* a < b on Python strings: the first differing character decides, and a    *)
(* proper prefix is smaller.                                                *)
RECURSIVE str_lt(_, _)
str_lt(a, b) ==
  IF b = "" THEN FALSE
  ELSE IF a = "" THEN TRUE
  ELSE IF ord[Head(a)] # ord[Head(b)] THEN ord[Head(a)] < ord[Head(b)]
  ELSE str_lt(Tail(a), Tail(b))

(* A sort that leaves the keys in insertion order.                          *)
sorted_insertion_order(keys) ==
  keys

(* sorted(self.glibc_configs.keys()), glibc-tools.py:178: the keys in       *)
(* ascending order of str's <.                                              *)
sorted(keys) ==
  SortSeq(keys, str_lt)

(* string.split(':'), glibc-tools.py:561.                                   *)
RECURSIVE split(_, _)
split(string, sep) ==
  IF string = "" THEN << "" >>
  ELSE LET rest == split(Tail(string), sep)
       IN  IF Head(string) = sep
           THEN << "" >> \o rest
           ELSE << Head(string) \o Head(rest) >> \o Tail(rest)

(* int(s) for a string of decimal digits.                                   *)
RECURSIVE int(_)
int(s) ==
  IF Len(s) = 1 THEN ord[s] - ord["0"]
  ELSE 10 * int(SubSeq(s, 1, Len(s) - 1)) + (ord[SubSeq(s, Len(s), Len(s))] - ord["0"])

(* A parser that takes the first field for the build-tool parallelism and  *)
(* the second for the pool size.                                            *)
parallelize_type_jobs_first(string) ==
  LET fields == split(string, ":")
  IN  IF Len(fields) = 1
      THEN << 1, int(fields[1]) >>
      ELSE << int(fields[2]), int(fields[1]) >>

(* parallelize_type, glibc-tools.py:560-564.                                *)
parallelize_type(string) ==
  LET fields == split(string, ":")
  IN  IF Len(fields) = 1
      THEN << int(fields[1]), 1 >>
      ELSE << int(fields[1]), int(fields[2]) >>

(* ------------------------------------------------------------------------ *)
(* Bounds of the model.                                                     *)

(* Longest token list given on the command line.                            *)
MaxTokens == 2

(* Largest worker-pool size N of -p N[:M].                                  *)
MaxWorkers == 2

(* Largest number of commands of one run that are chosen to end other than  *)
(* with exit status 0 (a command whose working directory is missing always  *)
(* fails to launch and is not counted).                                     *)
MaxFailures == 1

(* Longest list of add_config calls other than the one of add_all_configs.  *)
MaxConfigs == 2

(* Largest build-tool parallelism M of -p N:M that the parser is given.     *)
MaxJobs == 4

(* The tokens the command line draws from: two catalog targets and one      *)
(* name that is neither a catalog target nor a group alias.                 *)
Tokens == { "x86_64-linux-gnu", "aarch64-linux-gnu", "no-such-target" }

(* The tokens of the runs that list: group aliases (linux and abi have      *)
(* members in common), a catalog target and an unknown name.                *)
ListTokens ==
  { "arm", "zseries", "linux", "abi", "x86_64-linux-gnu", "no-such-target" }

(* The exit statuses an external command ends with.                         *)
ReturnCodes == { 0, 1 }

(* The values of --gccversion.                                              *)
GccVersions == { "12" }

(* The states a build directory is found in before the run.                 *)
InitialDirStates == { "absent", "used" }

RECURSIVE SeqsUpTo(_, _)
SeqsUpTo(S, n) ==
  IF n = 0 THEN { << >> }
  ELSE LET shorter == SeqsUpTo(S, n - 1)
       IN  shorter \cup { Append(s, x) : s \in shorter, x \in S }

Range(s) == { s[n] : n \in 1..Len(s) }

(* The section glibc-tools of a complete ~/.glibc-tools.ini.                *)
Settings ==
  [ srcdir    |-> "/src",
    builddir  |-> "/build",
    logsdir   |-> "/logs",
    compilers |-> "/compilers" ]

(* The settings files: section name -> keys.  A complete file, no file (or  *)
(* a file without sections), a file with another section only, and the     *)
(* files whose section glibc-tools lacks one of the keys.                   *)
IniFiles ==
  { "glibc-tools" :> Settings, << >>, "glibc" :> Settings }
    \cup { "glibc-tools" :> [ key \in DOMAIN Settings \ { missing } |-> Settings[key] ] :
             missing \in DOMAIN Settings }

(* The calls add_all_configs makes, each named by its place in              *)
(* ADD_CONFIG_CALLS.                                                        *)
RegisteredCalls ==
  [ n \in 1..Len(ALL_CONFIGS) |-> n ]

(* The calls the other registration lists are made of: the first call of    *)
(* add_all_configs (one Glibc), its sixth (two Glibcs) and ClashingConfig.  *)
CatalogCalls ==
  { 1, 6, Len(ADD_CONFIG_CALLS) }

(* The values of -p of the runs on a small catalog.                         *)
ParallelizeArgs == { "1", "1:4" }

(* The values of -p of the runs under fair scheduling.                      *)
FairParallelizeArgs == { "1", "2:4" }

(* ------------------------------------------------------------------------ *)
(* State.                                                                   *)

VARIABLES
  opts,           \* the parsed command line: action, configs, keep, parallelize, gccversion
  PATHS,          \* the global PATHS map, filled by read_config
  pc,             \* where the main thread is
  glibcs,         \* Context.run's list of targets
  cmds,           \* Context.run's cmds: stage -> the targets with a command, in insertion order
  i,              \* index of the target loop of Context.run (line 186)
  k,              \* index of the stage bucket loop (line 195)
  j,              \* index of the submit loop (line 199)
  futures,        \* every future submitted so far: (target, stage) -> its state
  future_to_abi,  \* the keys of the current bucket's future_to_abi dict
  queue,          \* the executor's work queue
  yielded,        \* the futures as_completed has handed to the main thread
  out,            \* stdout: the lines list_configs printed, in order
  report,         \* stdout: the lines the as_completed loop printed, as a bag
                  \* (they come out in the order the commands complete)
  dirs,           \* the build directories: path -> absent, empty or used
  removed,        \* history: path -> number of remove_recreate_dirs calls
  all_configs,    \* the add_config calls of add_all_configs, by place in ADD_CONFIG_CALLS
  ctx_configs,    \* the keys of Context.configs, in insertion order
  ctx_glibc_configs,  \* the keys of Context.glibc_configs, in insertion order
  inifile,        \* the settings file: section name -> keys
  exit_status,    \* the exit status of the process, None while it runs
  logs            \* the log files created: file, and the command writing to it

vars ==
  << opts, PATHS, pc, glibcs, cmds, i, k, j, futures, future_to_abi, queue,
     yielded, out, report, dirs, removed, all_configs, ctx_configs,
     ctx_glibc_configs, inifile, exit_status, logs >>

(* ------------------------------------------------------------------------ *)
(* Pure helpers.                                                            *)

(* One build directory for all the targets.                                 *)
BuildPath_shared(builddir, gccversion, abi) ==
  builddir \o "/glibc" \o gccversion

(* build_dir, with the PATHS entries passed in.                             *)
BuildPath(builddir, gccversion, abi) ==
  builddir \o "/" \o abi \o gccversion

(* build_dir(abi), glibc-tools.py:63-64.                                    *)
build_dir(abi) ==
  BuildPath(PATHS.builddir, PATHS.gccversion, abi)

(* read_config's PATHS['gccversion'], glibc-tools.py:45.                    *)
GccSuffix(gccversion) ==
  IF gccversion = "" THEN "" ELSE "-gcc" \o gccversion

(* A configure chain that is the configure stage alone.                     *)
CMD_MAP_configure_alone(action) ==
  CASE action = "copylibs"    -> << >>
    [] action = "configure"   -> << "configure" >>
    [] action = "make"        -> << "configure", "copylibs", "make" >>
    [] action = "check"       -> << "configure", "copylibs", "make", "check" >>
    [] action = "check-abi"   -> << "configure", "make", "check-abi" >>
    [] action = "update-abi"  -> << "configure", "make", "update-abi" >>
    [] action = "bench-build" -> << "configure", "make", "bench-build" >>

(* A table whose check-abi, update-abi and bench-build chains copy the      *)
(* support libraries as the chain of make does.                             *)
CMD_MAP_abi_with_copylibs(action) ==
  CASE action = "copylibs"    -> << >>
    [] action = "configure"   -> << "configure", "copylibs" >>
    [] action = "make"        -> << "configure", "copylibs", "make" >>
    [] action = "check"       -> << "configure", "copylibs", "make", "check" >>
    [] action = "check-abi"   -> << "configure", "copylibs", "make", "check-abi" >>
    [] action = "update-abi"  -> << "configure", "copylibs", "make", "update-abi" >>
    [] action = "bench-build" -> << "configure", "copylibs", "make", "bench-build" >>

(* The stage list of CMD_MAP[action], glibc-tools.py:152-174.               *)
CMD_MAP(action) ==
  CASE action = "copylibs"    -> << >>
    [] action = "configure"   -> << "configure", "copylibs" >>
    [] action = "make"        -> << "configure", "copylibs", "make" >>
    [] action = "check"       -> << "configure", "copylibs", "make", "check" >>
    [] action = "check-abi"   -> << "configure", "make", "check-abi" >>
    [] action = "update-abi"  -> << "configure", "make", "update-abi" >>
    [] action = "bench-build" -> << "configure", "make", "bench-build" >>

(* An expansion that drops the identifiers it has already produced.         *)
RECURSIVE Expand_deduplicated(_)
Expand_deduplicated(tokens) ==
  IF tokens = << >> THEN << >>
  ELSE LET before == Expand_deduplicated(SubSeq(tokens, 1, Len(tokens) - 1))
           last   == tokens[Len(tokens)]
           group  == IF last \in DOMAIN SPECIAL_LISTS
                     THEN SPECIAL_LISTS[last]
                     ELSE << last >>
       IN  before \o SelectSeq(group, LAMBDA abi :
                                 \A n \in 1..Len(before) : before[n] # abi)

(* An expansion that takes the members of a group last to first.            *)
RECURSIVE Expand_members_reversed(_)
Expand_members_reversed(tokens) ==
  IF tokens = << >> THEN << >>
  ELSE (IF Head(tokens) \in DOMAIN SPECIAL_LISTS
        THEN [ n \in 1..Len(SPECIAL_LISTS[Head(tokens)]) |->
                 SPECIAL_LISTS[Head(tokens)][Len(SPECIAL_LISTS[Head(tokens)]) + 1 - n] ]
        ELSE << Head(tokens) >>) \o Expand_members_reversed(Tail(tokens))

(* main's expansion of the tokens, glibc-tools.py:796:                      *)
(* chain.from_iterable(SPECIAL_LISTS.get(c, [c]) for c in opts.configs).    *)
RECURSIVE Expand(_)
Expand(tokens) ==
  IF tokens = << >> THEN << >>
  ELSE (IF Head(tokens) \in DOMAIN SPECIAL_LISTS
        THEN SPECIAL_LISTS[Head(tokens)]
        ELSE << Head(tokens) >>) \o Expand(Tail(tokens))

(* A store into a list: every store adds an entry.                          *)
DictStore_list(keys, abi) ==
  Append(keys, abi)

(* cmds[act][abi] = ..., an OrderedDict store: a new key goes last, a key   *)
(* already present keeps its place.                                         *)
DictStore(keys, abi) ==
  IF abi \in Range(keys) THEN keys ELSE Append(keys, abi)

(* The inner loop of Context.run, lines 187-188: one store per stage of the *)
(* chain.                                                                   *)
RECURSIVE StoreAll(_, _, _)
StoreAll(c, chain, abi) ==
  IF chain = << >> THEN c
  ELSE StoreAll([c EXCEPT ![Head(chain)] = DictStore(@, abi)], Tail(chain), abi)

(* An add_config that never finds a Glibc name taken: the store replaces    *)
(* the Glibc registered under the name.                                     *)
DuplicateGlibc_unchecked(glibc_configs_, name) ==
  FALSE

(* c.name in self.glibc_configs, glibc-tools.py:223.                        *)
DuplicateGlibc(glibc_configs_, name) ==
  name \in Range(glibc_configs_)

(* cfg.name in self.configs, glibc-tools.py:218.                            *)
DuplicateConfig(configs, name) ==
  name \in Range(configs)

(* The loop of add_config over cfg.all_glibcs, glibc-tools.py:222-226; self *)
(* is the Context: the keys of its two dicts and the exit status.           *)
RECURSIVE StoreGlibcs(_, _)
StoreGlibcs(self, all_glibcs) ==
  IF all_glibcs = << >> THEN self
  ELSE IF DuplicateGlibc(self.glibc_configs, Head(all_glibcs).name)
  THEN [self EXCEPT !.exit_status = Some(1)]
  ELSE StoreGlibcs([self EXCEPT !.glibc_configs = DictStore(@, Head(all_glibcs).name)],
                   Tail(all_glibcs))

(* Context.add_config, glibc-tools.py:215-226, for call number call of      *)
(* ADD_CONFIG_CALLS.                                                        *)
add_config(self, call) ==
  LET cfg == Configs[call]
  IN  IF DuplicateConfig(self.configs, cfg.name)
      THEN [self EXCEPT !.exit_status = Some(1)]
      ELSE StoreGlibcs([self EXCEPT !.configs = DictStore(@, cfg.name)],
                       cfg.all_glibcs)

(* Context.add_all_configs, glibc-tools.py:229-456: the calls in order,     *)
(* until one of them exits.                                                 *)
RECURSIVE add_all_configs(_, _)
add_all_configs(self, calls) ==
  IF calls = << >> \/ self.exit_status # None THEN self
  ELSE add_all_configs(add_config(self, Head(calls)), Tail(calls))

(* self.glibc_configs[abi]: the Glibc object stored under the name          *)
(* (add_config stores one object per name).                                 *)
GlibcObject(abi) ==
  LET objects == AllGlibcs(all_configs)
      n == CHOOSE m \in 1..Len(objects) :
             /\ objects[m].name = abi
             /\ \A l \in 1..(m - 1) : objects[l].name # abi
  IN  objects[n]

(* The futures' states.                                                     *)
Pending == [state |-> "PENDING", raised |-> FALSE, returncode |-> 0]
Running == [state |-> "RUNNING", raised |-> FALSE, returncode |-> 0]
Returned(rc) == [state |-> "FINISHED", raised |-> FALSE, returncode |-> rc]
Raised == [state |-> "FINISHED", raised |-> TRUE, returncode |-> 0]

(* The name of the stage of bucket k.                                       *)
Stage == ACTIONS_[k]

(* The futures that are executing an external command.                      *)
running ==
  { p \in DOMAIN futures : futures[p].state = "RUNNING" }

(* The commands of the run that ended other than with exit status 0.        *)
Failures ==
  { p \in DOMAIN futures :
      /\ futures[p].state = "FINISHED"
      /\ futures[p].raised \/ futures[p].returncode # 0 }

(* A test that does not ask for the key srcdir.                             *)
ConfigInvalid_srcdir_unchecked ==
  \/ "glibc-tools" \notin DOMAIN inifile
  \/ "builddir" \notin DOMAIN inifile["glibc-tools"]
  \/ "logsdir" \notin DOMAIN inifile["glibc-tools"]
  \/ "compilers" \notin DOMAIN inifile["glibc-tools"]

(* The test of read_config, glibc-tools.py:36-40.                           *)
ConfigInvalid ==
  \/ "glibc-tools" \notin DOMAIN inifile
  \/ "srcdir" \notin DOMAIN inifile["glibc-tools"]
  \/ "builddir" \notin DOMAIN inifile["glibc-tools"]
  \/ "logsdir" \notin DOMAIN inifile["glibc-tools"]
  \/ "compilers" \notin DOMAIN inifile["glibc-tools"]

(* The PATHS read_config stores for a valid settings file,                  *)
(* glibc-tools.py:43-46.                                                    *)
read_config(gccversion) ==
  ("gccversion" :> GccSuffix(gccversion))
    @@ [ inifile["glibc-tools"] EXCEPT !.compilers = @ \o gccversion ]

(* Context.parallelize and Context.build_jobs, glibc-tools.py:122-123.      *)
parallelize == opts.parallelize[1]

build_jobs == opts.parallelize[2]

(* Context.run_built_tests and Context.extra_config_opts for a command line *)
(* without -t and without configure options, glibc-tools.py:125-143.        *)
run_built_tests == "no"

extra_config_opts ==
  << "--enable-stack-protector=all", "--enable-tunables=yes",
     "--enable-bind-now=yes", "--enable-profile=no" >>

(* build_triplet on an x86_64 machine, glibc-tools.py:68-72.                *)
build_triplet == "x86_64" \o "-linux-gnu"

(* Glibc.tool_name, glibc-tools.py:492-498.                                 *)
tool_name(g, tool) ==
  LET ctool == PATHS.compilers \o "/" \o g.compiler.name \o "/bin/"
                 \o g.compiler.triplet \o "-" \o tool
  IN  IF g.ccopts # None /\ g.ccopts # Some("") /\ tool \in { "gcc", "g++" }
      THEN ctool \o " " \o g.ccopts[1]
      ELSE ctool

(* Glibc.configure, glibc-tools.py:500-520.                                 *)
configure(g) ==
  << PATHS.srcdir \o "/configure",
     "--prefix=/usr",
     "--build=" \o build_triplet,
     "--host=" \o g.host_triplet,
     "CC=" \o tool_name(g, "gcc"),
     "CXX=" \o tool_name(g, "g++"),
     "AR=" \o tool_name(g, "ar"),
     "AS=" \o tool_name(g, "as"),
     "LD=" \o tool_name(g, "ld"),
     "NM=" \o tool_name(g, "nm"),
     "OBJCOPY=" \o tool_name(g, "objcopy"),
     "OBJDUMP=" \o tool_name(g, "objdump"),
     "RANLIB=" \o tool_name(g, "ranlib"),
     "READELF=" \o tool_name(g, "readelf"),
     "STRIP=" \o tool_name(g, "strip") >>
    \o (IF g.os = "gnu" THEN << "MIG=" \o tool_name(g, "mig") >> ELSE << >>)
    \o extra_config_opts
    \o g.cfg

(* subprocess.getoutput(cmd): what the command prints, kept symbolic.       *)
getoutput(cmd) ==
  "$(" \o cmd \o ")"

(* Glibc.lib_name, glibc-tools.py:522-525.                                  *)
lib_name(g, lib) ==
  getoutput(tool_name(g, "gcc") \o " -print-file-name=" \o lib)

(* Glibc.copylibs, glibc-tools.py:527-532.                                  *)
copylibs(g) ==
  LET libgcc == IF lib_name(g, "libgcc_s.so.1") = "libgcc_s.so.1"
                THEN lib_name(g, "libgcc_s.so")
                ELSE lib_name(g, "libgcc_s.so.1")
  IN  << "cp", libgcc, lib_name(g, "libstdc++.so.6"), build_dir(g.name) >>

(* Glibc.build, check, check_abi, update_abi and bench_build,               *)
(* glibc-tools.py:534-557.                                                  *)
build(g) ==
  << "make", "-j" \o ToString(build_jobs) >>

check(g) ==
  << "make", "check", "run-built-tests=" \o run_built_tests,
     "-j" \o ToString(build_jobs) >>

check_abi(g) ==
  << "make", "check-abi", "-j" \o ToString(build_jobs) >>

update_abi(g) ==
  << "make", "update-abi", "-j" \o ToString(build_jobs) >>

bench_build(g) ==
  << "make", "bench-build", "-j" \o ToString(build_jobs) >>

(* self.CMD_MAP[act][0](self, abi), glibc-tools.py:152-174 and 188: the     *)
(* command stored under cmds[act][abi].  It is a function of the command    *)
(* line, PATHS and the catalog, which do not change once run is entered.    *)
Command(act, abi) ==
  CASE act = "copylibs"    -> copylibs(GlibcObject(abi))
    [] act = "configure"   -> configure(GlibcObject(abi))
    [] act = "make"        -> build(GlibcObject(abi))
    [] act = "check"       -> check(GlibcObject(abi))
    [] act = "check-abi"   -> check_abi(GlibcObject(abi))
    [] act = "update-abi"  -> update_abi(GlibcObject(abi))
    [] act = "bench-build" -> bench_build(GlibcObject(abi))

(* A log file named after the target alone.                                 *)
LogFile_per_target(abi, action, ext) ==
  PATHS.logsdir \o "/" \o abi \o ext

(* The log file names of run_cmd, glibc-tools.py:113-114.                   *)
LogFile(abi, action, ext) ==
  PATHS.logsdir \o "/" \o abi \o "_" \o action \o ext

(* outfile and errfile of run_cmd(abi, action, cmd): the files create_file  *)
(* opens, each with the command whose output it receives.                   *)
LogFiles(abi, action) ==
  { [ file |-> LogFile(abi, action, ext), abi |-> abi, action |-> action ] :
      ext \in { ".out", ".err" } }

(* The keep test the wrong way round.                                       *)
ShouldRemove_inverted ==
  opts.keep = TRUE

(* if self.keep is False, glibc-tools.py:190.                               *)
ShouldRemove ==
  opts.keep = FALSE

(* A pool that starts a thread per work item, whatever max_workers is.      *)
WorkerIdle_unbounded ==
  TRUE

(* A pool whose workers take no more work once a command has failed: the    *)
(* work items still queued are abandoned.                                   *)
WorkerIdle_until_failure ==
  Cardinality(running) < parallelize /\ Failures = {}

(* ThreadPoolExecutor(max_workers=self.parallelize): a worker thread is     *)
(* free to take the next work item.                                         *)
WorkerIdle ==
  Cardinality(running) < parallelize

(* A run that submits nothing more once a command has failed.               *)
BucketKeys_stop_on_failure(stage) ==
  IF Failures = {} THEN cmds[stage] ELSE << >>

(* A run that drops a target from the later buckets once one of its         *)
(* commands has failed.                                                     *)
BucketKeys_skip_failed(stage) ==
  SelectSeq(cmds[stage], LAMBDA abi : \A p \in Failures : p[1] # abi)

(* The keys of the bucket cmds[stage], glibc-tools.py:196-200: the targets  *)
(* len(cmds) counts and cmds.keys() submits.                                *)
BucketKeys(stage) ==
  cmds[stage]

(* A wait that ends with the first future handed over.                      *)
BucketDrained_first ==
  yielded # {}

(* as_completed(future_to_abi) is exhausted: every future of the bucket has *)
(* been handed to the loop body, glibc-tools.py:201.                        *)
BucketDrained ==
  yielded = future_to_abi

(* A report that takes every status but a negative one for success.        *)
ReportLine_nonnegative(stage, abi, resultcode) ==
  [ kind   |-> IF resultcode >= 0 THEN "PASS" ELSE "FAIL",
    action |-> stage,
    abi    |-> abi ]

(* The line printed for a future that returned, glibc-tools.py:208-212.     *)
ReportLine(stage, abi, resultcode) ==
  [ kind   |-> IF resultcode = 0 THEN "PASS" ELSE "FAIL",
    action |-> stage,
    abi    |-> abi ]

(* The line printed for a future that raised, glibc-tools.py:205-206: it    *)
(* names the target and the exception, not the stage.                       *)
ExceptionLine(abi) ==
  [ kind |-> "EXCEPTION", action |-> "", abi |-> abi ]

(* A loop without the except clause: the exception leaves run.              *)
AfterException_propagates ==
  "aborted"

(* Where the main thread goes after the except clause, glibc-tools.py:205:  *)
(* the exception is caught and the as_completed loop goes on.               *)
AfterException ==
  "wait"

(* A listing of the entries that are catalog targets only.                  *)
list_configs_known_only(l) ==
  LET known == SelectSeq(l, LAMBDA abi : abi \in Range(ctx_glibc_configs))
  IN  [ n \in 1..Len(known) |->
          [ kind |-> "LIST", action |-> "list", abi |-> known[n] ] ]

(* A listing that stops after eight entries.                                *)
list_configs_first_eight(l) ==
  [ n \in 1..(IF Len(l) < 8 THEN Len(l) ELSE 8) |->
      [ kind |-> "LIST", action |-> "list", abi |-> l[n] ] ]

(* list_configs, glibc-tools.py:458-460: one line per entry.                *)
list_configs(l) ==
  [ n \in 1..Len(l) |-> [ kind |-> "LIST", action |-> "list", abi |-> l[n] ] ]

(* ------------------------------------------------------------------------ *)
(* Initial states: a command line, a settings file, and the build           *)
(* directories the command line names.                                      *)

(* The process before read_config and run: nothing is read, built,         *)
(* submitted, printed or created.                                          *)
AtStart ==
  /\ PATHS = << >>
  /\ glibcs = << >>
  /\ cmds = << >>
  /\ i = 0
  /\ k = 0
  /\ j = 0
  /\ futures = << >>
  /\ future_to_abi = {}
  /\ queue = << >>
  /\ yielded = {}
  /\ out = << >>
  /\ report = EmptyBag
  /\ removed = [ d \in DOMAIN dirs |-> 0 ]
  /\ exit_status = None
  /\ logs = {}

(* The build directory of target t under the builddir of Settings.          *)
InitialBuildDir(t) ==
  BuildPath(Settings.builddir, GccSuffix(opts.gccversion), t)

(* The process after ctx = Context(opts), glibc-tools.py:792, has built the *)
(* catalog of add_all_configs.                                              *)
Init ==
  /\ opts \in [ action      : Range(ACTIONS_),
                configs     : SeqsUpTo(Tokens, MaxTokens),
                keep        : BOOLEAN,
                parallelize : { parallelize_type(ToString(n)) : n \in 1..MaxWorkers },
                gccversion  : GccVersions ]
  /\ opts.configs = << >> => opts.action = "list"
  /\ all_configs = RegisteredCalls
  /\ ctx_configs = configs_keys
  /\ ctx_glibc_configs = glibc_configs_keys
  /\ pc = "main"
  /\ inifile \in IniFiles
  /\ dirs \in [ { InitialBuildDir(t) : t \in Range(Expand(opts.configs)) }
                  -> InitialDirStates ]
  /\ AtStart

(* ------------------------------------------------------------------------ *)
(* The main thread.                                                         *)

(* Context(opts), glibc-tools.py:120-150 and 792: the catalog is built by   *)
(* add_all_configs; a duplicate name ends the process with exit(1).         *)
NewContext ==
  /\ pc = "context"
  /\ \E self \in { add_all_configs([ configs       |-> << >>,
                                      glibc_configs |-> << >>,
                                      exit_status   |-> None ], all_configs) } :
         /\ ctx_configs' = self.configs
         /\ ctx_glibc_configs' = self.glibc_configs
         /\ exit_status' = self.exit_status
         /\ pc' = IF self.exit_status = None THEN "main" ELSE "exit"
  /\ UNCHANGED << opts, PATHS, glibcs, cmds, i, k, j, futures, future_to_abi,
                  queue, yielded, out, report, dirs, removed, all_configs,
                  inifile, logs >>

(* main after the Context is built, glibc-tools.py:794-798: read_config,    *)
(* which ends the process with sys.exit(1) on an invalid settings file,     *)
(* then the expansion of the tokens.                                        *)
Main ==
  /\ pc = "main"
  /\ IF ConfigInvalid
     THEN /\ exit_status' = Some(1)
          /\ pc' = "exit"
          /\ UNCHANGED << PATHS, glibcs >>
     ELSE /\ PATHS' = read_config(opts.gccversion)
          /\ glibcs' = Expand(opts.configs)
          /\ pc' = "run"
          /\ UNCHANGED exit_status
  /\ UNCHANGED << opts, cmds, i, k, j, futures, future_to_abi, queue, yielded,
                  out, report, dirs, removed, all_configs, ctx_configs,
                  ctx_glibc_configs, inifile, logs >>

(* Context.run with action list, glibc-tools.py:176-181; main returns and   *)
(* the process ends with status 0.                                          *)
RunList ==
  /\ pc = "run"
  /\ opts.action = "list"
  /\ glibcs' = IF glibcs = << >> THEN sorted(ctx_glibc_configs) ELSE glibcs
  /\ out' = out \o list_configs(glibcs')
  /\ pc' = "done"
  /\ exit_status' = Some(0)
  /\ UNCHANGED << opts, PATHS, cmds, i, k, j, futures, future_to_abi, queue,
                  yielded, report, dirs, removed, all_configs, ctx_configs,
                  ctx_glibc_configs, inifile, logs >>

(* Context.run with another action, glibc-tools.py:176-185.                 *)
RunBegin ==
  /\ pc = "run"
  /\ opts.action # "list"
  /\ glibcs' = IF glibcs = << >> THEN sorted(ctx_glibc_configs) ELSE glibcs
  /\ cmds' = [ a \in Range(ACTIONS_) |-> << >> ]
  /\ i' = 1
  /\ pc' = "build"
  /\ UNCHANGED << opts, PATHS, k, j, futures, future_to_abi, queue, yielded,
                  out, report, dirs, removed, all_configs, ctx_configs,
                  ctx_glibc_configs, inifile, exit_status, logs >>

(* One turn of the target loop, glibc-tools.py:186-191: the commands of the *)
(* chain are built, then the build directory is removed and recreated.  A   *)
(* name that is not in glibc_configs raises KeyError in the first lambda,   *)
(* which nothing catches: the process ends with a traceback and status 1.   *)
BuildCmds ==
  /\ pc = "build"
  /\ i <= Len(glibcs)
  /\ LET abi   == glibcs[i]
         chain == CMD_MAP(opts.action)
     IN  IF chain # << >> /\ abi \notin Range(ctx_glibc_configs)
         THEN /\ pc' = "aborted"
              /\ exit_status' = Some(1)
              /\ UNCHANGED << cmds, i, dirs, removed >>
         ELSE /\ cmds' = StoreAll(cmds, chain, abi)
              /\ IF ShouldRemove
                 THEN /\ dirs' = [dirs EXCEPT ![build_dir(abi)] = "empty"]
                      /\ removed' = [removed EXCEPT ![build_dir(abi)] = @ + 1]
                 ELSE UNCHANGED << dirs, removed >>
              /\ i' = i + 1
              /\ pc' = "build"
              /\ UNCHANGED exit_status
  /\ UNCHANGED << opts, PATHS, glibcs, k, j, futures, future_to_abi, queue,
                  yielded, out, report, all_configs, ctx_configs,
                  ctx_glibc_configs, inifile, logs >>

(* with ThreadPoolExecutor(...) as executor, glibc-tools.py:193-194.        *)
PoolEnter ==
  /\ pc = "build"
  /\ i > Len(glibcs)
  /\ k' = 1
  /\ pc' = "stage"
  /\ UNCHANGED << opts, PATHS, glibcs, cmds, i, j, futures, future_to_abi,
                  queue, yielded, out, report, dirs, removed, all_configs,
                  ctx_configs, ctx_glibc_configs, inifile, exit_status, logs >>

(* An empty bucket is passed over, glibc-tools.py:196-197.                  *)
SkipBucket ==
  /\ pc = "stage"
  /\ k <= Len(ACTIONS_)
  /\ BucketKeys(Stage) = << >>
  /\ k' = k + 1
  /\ UNCHANGED << opts, PATHS, pc, glibcs, cmds, i, j, futures, future_to_abi,
                  queue, yielded, out, report, dirs, removed, all_configs,
                  ctx_configs, ctx_glibc_configs, inifile, exit_status, logs >>

(* A bucket with commands: the dict comprehension starts, line 199.         *)
BeginBucket ==
  /\ pc = "stage"
  /\ k <= Len(ACTIONS_)
  /\ BucketKeys(Stage) # << >>
  /\ future_to_abi' = {}
  /\ yielded' = {}
  /\ j' = 1
  /\ pc' = "submit"
  /\ UNCHANGED << opts, PATHS, glibcs, cmds, i, k, futures, queue, out, report,
                  dirs, removed, all_configs, ctx_configs, ctx_glibc_configs,
                  inifile, exit_status, logs >>

(* executor.submit(run_cmd, abi, action, cmds[abi]), glibc-tools.py:199:    *)
(* one work item is queued; after the last one as_completed is entered.     *)
Submit ==
  /\ pc = "submit"
  /\ j <= Len(BucketKeys(Stage))
  /\ LET p == << BucketKeys(Stage)[j], Stage >>
     IN  /\ futures' = (p :> Pending) @@ futures
         /\ future_to_abi' = future_to_abi \cup { p }
         /\ queue' = Append(queue, p)
  /\ j' = j + 1
  /\ pc' = IF j = Len(BucketKeys(Stage)) THEN "wait" ELSE "submit"
  /\ UNCHANGED << opts, PATHS, glibcs, cmds, i, k, yielded, out, report, dirs,
                  removed, all_configs, ctx_configs, ctx_glibc_configs,
                  inifile, exit_status, logs >>

(* The body of the as_completed loop, glibc-tools.py:201-212.               *)
Report ==
  /\ pc = "wait"
  /\ \E p \in future_to_abi \ yielded :
       /\ futures[p].state = "FINISHED"
       /\ yielded' = yielded \cup { p }
       /\ IF futures[p].raised
          THEN /\ report' = report (+) SetToBag({ ExceptionLine(p[1]) })
               /\ pc' = AfterException
          ELSE /\ report' = report (+)
                      SetToBag({ ReportLine(Stage, p[1], futures[p].returncode) })
               /\ pc' = "wait"
  /\ UNCHANGED << opts, PATHS, glibcs, cmds, i, k, j, futures, future_to_abi,
                  queue, out, dirs, removed, all_configs, ctx_configs,
                  ctx_glibc_configs, inifile, exit_status, logs >>

(* as_completed is exhausted: the bucket loop goes to the next bucket.      *)
EndBucket ==
  /\ pc = "wait"
  /\ BucketDrained
  /\ k' = k + 1
  /\ pc' = "stage"
  /\ UNCHANGED << opts, PATHS, glibcs, cmds, i, j, futures, future_to_abi,
                  queue, yielded, out, report, dirs, removed, all_configs,
                  ctx_configs, ctx_glibc_configs, inifile, exit_status, logs >>

(* An exit status that tells whether a command failed.                      *)
ExitAfterRun_failures ==
  IF Failures = {} THEN 0 ELSE 1

(* run returns None to main and main returns None to the module level,      *)
(* glibc-tools.py:798-801: no sys.exit is called and the interpreter ends   *)
(* the process with status 0.                                               *)
ExitAfterRun ==
  0

(* The with block is left after the last bucket: executor.shutdown waits    *)
(* for the work items, run returns, main returns and the process ends with  *)
(* status 0.                                                                *)
PoolExit ==
  /\ pc = "stage"
  /\ k > Len(ACTIONS_)
  /\ queue = << >>
  /\ running = {}
  /\ pc' = "done"
  /\ exit_status' = Some(ExitAfterRun)
  /\ UNCHANGED << opts, PATHS, glibcs, cmds, i, k, j, futures, future_to_abi,
                  queue, yielded, out, report, dirs, removed, all_configs,
                  ctx_configs, ctx_glibc_configs, inifile, logs >>

(* ------------------------------------------------------------------------ *)
(* The worker threads.                                                      *)

(* run_cmd up to Popen, glibc-tools.py:111-115: a free worker takes the     *)
(* oldest work item and creates the two log files.  Popen raises when the   *)
(* working directory is missing, and may raise when the program cannot be   *)
(* launched; otherwise the process runs in the build directory.             *)
RunCmdPopen ==
  /\ queue # << >>
  /\ WorkerIdle
  /\ LET p == Head(queue)
     IN  /\ queue' = Tail(queue)
         /\ logs' = logs \cup LogFiles(p[1], p[2])
         /\ \/ /\ dirs[build_dir(p[1])] = "absent"
                  \/ Cardinality(Failures) < MaxFailures
               /\ futures' = [futures EXCEPT ![p] = Raised]
               /\ dirs' = dirs
            \/ /\ dirs[build_dir(p[1])] # "absent"
               /\ futures' = [futures EXCEPT ![p] = Running]
               /\ dirs' = [dirs EXCEPT ![build_dir(p[1])] = "used"]
  /\ UNCHANGED << opts, PATHS, pc, glibcs, cmds, i, k, j, future_to_abi,
                  yielded, out, report, removed, all_configs, ctx_configs,
                  ctx_glibc_configs, inifile, exit_status >>

(* proc.wait() returns, glibc-tools.py:116-117.                             *)
RunCmdWait ==
  /\ \E p \in running, rc \in ReturnCodes :
       /\ rc # 0 => Cardinality(Failures) < MaxFailures
       /\ futures' = [futures EXCEPT ![p] = Returned(rc)]
  /\ UNCHANGED << opts, PATHS, pc, glibcs, cmds, i, k, j, future_to_abi, queue,
                  yielded, out, report, dirs, removed, all_configs, ctx_configs,
                  ctx_glibc_configs, inifile, exit_status, logs >>

Next ==
  \/ Main
  \/ RunList
  \/ RunBegin
  \/ BuildCmds
  \/ PoolEnter
  \/ SkipBucket
  \/ BeginBucket
  \/ Submit
  \/ Report
  \/ EndBucket
  \/ PoolExit
  \/ RunCmdPopen
  \/ RunCmdWait

Spec == Init /\ [][Next]_vars

(* ------------------------------------------------------------------------ *)
(* The runs on other catalogs and with group aliases.                       *)

(* The names of the Glibcs the calls construct.                             *)
GlibcNames(calls) ==
  LET objects == AllGlibcs(calls)
  IN  { objects[n].name : n \in 1..Len(objects) }

(* The process at the call of Context(opts), glibc-tools.py:792, with a     *)
(* complete settings file.  Either the calls are those of add_all_configs   *)
(* and the command line names the target x86_64-linux-gnu or, for action    *)
(* list, no target; or the calls are a short list drawn from CatalogCalls   *)
(* and the command line names no target, so that the run is over every      *)
(* target registered.                                                       *)
InitCatalog ==
  /\ opts \in [ action      : Range(ACTIONS_),
                configs     : { << >>, << "x86_64-linux-gnu" >> },
                keep        : BOOLEAN,
                parallelize : { parallelize_type(s) : s \in ParallelizeArgs },
                gccversion  : GccVersions ]
  /\ \/ /\ all_configs = RegisteredCalls
        /\ opts.configs = << >> => opts.action = "list"
     \/ /\ all_configs \in SeqsUpTo(CatalogCalls, MaxConfigs)
        /\ opts.configs = << >>
        /\ opts.keep = FALSE
        /\ opts.parallelize = parallelize_type("1:4")
  /\ ctx_configs = << >>
  /\ ctx_glibc_configs = << >>
  /\ pc = "context"
  /\ inifile = ("glibc-tools" :> Settings)
  /\ LET targets == IF opts.configs = << >>
                    THEN GlibcNames(all_configs)
                    ELSE Range(Expand(opts.configs))
     IN  dirs \in { [ d \in { InitialBuildDir(t) : t \in targets } |-> s ] :
                      s \in InitialDirStates }
  /\ AtStart

NextCatalog ==
  \/ NewContext
  \/ Next

SpecCatalog == InitCatalog /\ [][NextCatalog]_vars

(* ------------------------------------------------------------------------ *)
(* The runs that list, group aliases among the tokens.                      *)

(* The process after ctx = Context(opts), with action list and up to        *)
(* MaxTokens tokens drawn from ListTokens.                                  *)
InitList ==
  /\ opts \in [ action      : { "list" },
                configs     : SeqsUpTo(ListTokens, MaxTokens),
                keep        : BOOLEAN,
                parallelize : { parallelize_type(s) : s \in ParallelizeArgs },
                gccversion  : GccVersions ]
  /\ all_configs = RegisteredCalls
  /\ ctx_configs = configs_keys
  /\ ctx_glibc_configs = glibc_configs_keys
  /\ pc = "main"
  /\ inifile = ("glibc-tools" :> Settings)
  /\ LET targets == IF opts.configs = << >>
                    THEN glibc_configs
                    ELSE Range(Expand(opts.configs))
     IN  dirs \in { [ d \in { InitialBuildDir(t) : t \in targets } |-> s ] :
                      s \in InitialDirStates }
  /\ AtStart

NextList ==
  \/ Main
  \/ RunList

SpecList == InitList /\ [][NextList]_vars

(* ------------------------------------------------------------------------ *)
(* The runs under the scheduling the code relies on.                        *)

(* The steps of the main thread.                                            *)
MainThread ==
  \/ Main
  \/ RunList
  \/ RunBegin
  \/ BuildCmds
  \/ PoolEnter
  \/ SkipBucket
  \/ BeginBucket
  \/ Submit
  \/ Report
  \/ EndBucket
  \/ PoolExit

(* The main thread runs while it can take a step; a worker thread of the    *)
(* pool that is free takes the oldest work item (queue.get in the worker    *)
(* loop of ThreadPoolExecutor); and every external command terminates, so   *)
(* that proc.wait() returns, glibc-tools.py:116.                            *)
Fairness ==
  /\ WF_vars(MainThread)
  /\ WF_vars(RunCmdPopen)
  /\ WF_vars(RunCmdWait)

(* The process after ctx = Context(opts), with a complete settings file,    *)
(* tokens that are catalog targets, no --keep, and the named build          *)
(* directories all absent or all used.                                      *)
InitLive ==
  /\ opts \in [ action      : Range(ACTIONS_),
                configs     : SeqsUpTo(Tokens \cap glibc_configs, MaxTokens),
                keep        : { FALSE },
                parallelize : { parallelize_type(s) : s \in FairParallelizeArgs },
                gccversion  : GccVersions ]
  /\ opts.configs = << >> => opts.action = "list"
  /\ all_configs = RegisteredCalls
  /\ ctx_configs = configs_keys
  /\ ctx_glibc_configs = glibc_configs_keys
  /\ pc = "main"
  /\ inifile = ("glibc-tools" :> Settings)
  /\ dirs \in { [ d \in { InitialBuildDir(t) : t \in Range(Expand(opts.configs)) } |-> s ] :
                   s \in InitialDirStates }
  /\ AtStart

SpecLive == InitLive /\ [][Next]_vars /\ Fairness

(* ------------------------------------------------------------------------ *)
(* Vocabulary of the properties.                                            *)

(* The place of a stage in the order of the buckets.                        *)
StageIndex(stage) ==
  CHOOSE n \in 1..Len(ACTIONS_) : ACTIONS_[n] = stage

(* run_cmd has been called for the pair and has returned or raised.         *)
Finished(p) ==
  p \in DOMAIN futures /\ futures[p].state = "FINISHED"

(* A worker has taken the pair's work item: run_cmd has been called.        *)
Started(p) ==
  p \in DOMAIN futures /\ futures[p].state # "PENDING"

(* The pair's process was launched and has exited with a status other than  *)
(* 0.                                                                       *)
ExitedNonzero(p) ==
  Finished(p) /\ ~futures[p].raised /\ futures[p].returncode # 0

(* The pair's run_cmd raised: the process could not be launched.            *)
LaunchFailed(p) ==
  Finished(p) /\ futures[p].raised

(* The stages of the chain of the requested action.                         *)
ChainStages ==
  IF opts.action = "list" THEN {} ELSE Range(CMD_MAP(opts.action))

(* The number of copies in the bag B of the lines of the set S.             *)
RECURSIVE SumCopies(_, _)
SumCopies(B, S) ==
  IF S = {} THEN 0
  ELSE LET l == CHOOSE x \in S : TRUE
       IN  B[l] + SumCopies(B, S \ { l })

(* The number of lines of report that satisfy Test.                         *)
CountLines(Test(_)) ==
  SumCopies(report, { l \in DOMAIN report : Test(l) })

(* ------------------------------------------------------------------------ *)
(* C1: in Context.run, while a command of some stage bucket is submitted    *)
(* (queued, started or returned), every command of every earlier bucket has *)
(* been submitted and has returned, with success, failure or an exception:  *)
(* no command of a later bucket is submitted or started before the earlier  *)
(* bucket has drained.                                                      *)
C1_StageBarrier ==
  \A q \in DOMAIN futures :
    \A n \in 1..(StageIndex(q[2]) - 1) :
      \A abi \in Range(cmds[ACTIONS_[n]]) : Finished(<< abi, ACTIONS_[n] >>)

(* A command of a later bucket is executing, after a bucket of two commands *)
(* of which one raised and the other returned.                              *)
C1_Witness ==
  \E q \in running :
    \E s \in Range(ACTIONS_) :
      /\ StageIndex(s) < StageIndex(q[2])
      /\ Len(cmds[s]) = 2
      /\ \E a, b \in Range(cmds[s]) :
           /\ LaunchFailed(<< a, s >>)
           /\ Finished(<< b, s >>) /\ ~futures[<< b, s >>].raised

(* ------------------------------------------------------------------------ *)
(* C2: at every moment the number of external stage commands that are       *)
(* executing is at most the worker-pool size N of -p N[:M].                 *)
C2_PoolBound ==
  Cardinality(running) <= parallelize

(* The pool is full and a submitted command waits in the queue for a        *)
(* worker.                                                                  *)
C2_Witness ==
  /\ Cardinality(running) = parallelize
  /\ queue # << >>

(* ------------------------------------------------------------------------ *)
(* C3: once a command of one target has exited nonzero the run is not       *)
(* abandoned, and when run has returned every other requested target has    *)
(* had its command run for that stage and for every later stage of the      *)
(* chain.                                                                   *)
C3_SiblingsContinue ==
  \A p \in DOMAIN futures :
    ExitedNonzero(p) =>
      /\ pc # "aborted"
      /\ pc = "done" =>
           \A t \in Range(glibcs) \ { p[1] } :
             \A s \in ChainStages :
               StageIndex(s) >= StageIndex(p[2]) => Finished(<< t, s >>)

(* run has returned, one target's command exited nonzero at a stage that is *)
(* not the last of the chain, and there is another requested target.        *)
C3_Witness ==
  /\ pc = "done"
  /\ \E p \in DOMAIN futures :
       /\ ExitedNonzero(p)
       /\ \E s \in ChainStages : StageIndex(s) > StageIndex(p[2])
       /\ \E t \in Range(glibcs) : t # p[1] /\ Finished(<< t, p[2] >>)

(* ------------------------------------------------------------------------ *)
(* C4: when run has returned, a target whose command exited nonzero at some *)
(* stage has had its commands of all the later stages of the chain          *)
(* submitted and run: there is no per-target fail-fast.                     *)
C4_NoFailFast ==
  pc = "done" =>
    \A p \in DOMAIN futures :
      ExitedNonzero(p) =>
        \A s \in ChainStages :
          StageIndex(s) > StageIndex(p[2]) => Finished(<< p[1], s >>)

(* run has returned and a target failed at the first stage of a chain of    *)
(* four stages, after which its three later commands were launched.         *)
C4_Witness ==
  /\ pc = "done"
  /\ Cardinality(ChainStages) = 4
  /\ \E p \in DOMAIN futures :
       /\ ExitedNonzero(p)
       /\ \A s \in ChainStages : StageIndex(s) >= StageIndex(p[2])
       /\ \A s \in ChainStages \ { p[2] } :
            Finished(<< p[1], s >>) /\ ~futures[<< p[1], s >>].raised

(* The number of times x occurs in the sequence.                            *)
Occurrences(seq, x) ==
  Cardinality({ n \in 1..Len(seq) : seq[n] = x })

(* The loop body of as_completed has been run for the pair's future.        *)
Handled(p) ==
  p \in DOMAIN futures /\ (p \in yielded \/ p \notin future_to_abi)

(* The number of report lines of the given kinds for the pair.              *)
LinesOf(p, kinds) ==
  (IF "PASS" \in kinds
   THEN CopiesIn([ kind |-> "PASS", action |-> p[2], abi |-> p[1] ], report)
   ELSE 0)
  + (IF "FAIL" \in kinds
     THEN CopiesIn([ kind |-> "FAIL", action |-> p[2], abi |-> p[1] ], report)
     ELSE 0)

(* The commands run so far are of the stages of order only, a command of a  *)
(* stage is submitted only when the target's commands of the stages before  *)
(* it in order have returned, and when run has returned every requested     *)
(* target has run every stage of order.                                     *)
RunsInOrder(order) ==
  /\ \A p \in DOMAIN futures : p[2] \in Range(order)
  /\ \A p \in DOMAIN futures :
       \A a, b \in 1..Len(order) :
         a < b /\ p[2] = order[b] => Finished(<< p[1], order[a] >>)
  /\ pc = "done" =>
       \A t \in Range(glibcs) :
         \A s \in Range(order) : Finished(<< t, s >>)

C6_AsClaimed ==
  (pc = "done" /\ opts.action # "list") =>
    \A t \in Range(glibcs) :
      /\ Finished(<< t, opts.action >>)
      /\ \A p \in DOMAIN futures :
           (p[1] = t /\ p[2] # opts.action) =>
             StageIndex(p[2]) < StageIndex(opts.action)

(* ------------------------------------------------------------------------ *)
(* C7 as stated: when two targets are requested for an action other than    *)
(* list and one of them is not in the catalog, the run is not aborted, the  *)
(* valid target gets one PASS or FAIL line for every stage of the chain,    *)
(* and the invalid one is reported by a line of its own.                    *)
C7_AsClaimed ==
  ( /\ opts.action # "list"
    /\ pc \in { "done", "aborted" }
    /\ Len(glibcs) = 2
    /\ Cardinality(Range(glibcs) \cap glibc_configs) = 1
    /\ Cardinality(Range(glibcs) \ glibc_configs) = 1 ) =>
      /\ pc # "aborted"
      /\ \A t \in Range(glibcs) \cap glibc_configs :
           \A s \in ChainStages : LinesOf(<< t, s >>, { "PASS", "FAIL" }) = 1
      /\ \A t \in Range(glibcs) \ glibc_configs :
           CountLines(LAMBDA l : l.abi = t /\ l.kind # "PASS") >= 1

(* ------------------------------------------------------------------------ *)
(* C8: for an action other than list, with the keep flag unset each         *)
(* requested target's build directory has been removed and recreated by the *)
(* time the pool is entered, all of them are empty until the first command  *)
(* starts, and from then on the removals are the ones of the target loop,   *)
(* one per occurrence of the target in the list: none is added once a       *)
(* command has started.  With the keep flag set nothing is ever removed.    *)
C8_RecreateBeforeRun ==
  opts.action # "list" =>
    /\ opts.keep => \A d \in DOMAIN removed : removed[d] = 0
    /\ (~opts.keep /\ pc \in { "stage", "submit", "wait", "done" }) =>
         /\ \A t \in Range(glibcs) :
              removed[build_dir(t)] = Occurrences(glibcs, t)
         /\ (\A p \in DOMAIN futures : ~Started(p)) =>
              \A t \in Range(glibcs) : dirs[build_dir(t)] = "empty"
    /\ (\E p \in DOMAIN futures : Started(p)) =>
         pc \in { "stage", "submit", "wait", "done" }

(* Without the keep flag, a command of the second bucket is executing for   *)
(* one of two targets, and both directories have been recreated.            *)
C8_Witness ==
  /\ ~opts.keep
  /\ Cardinality(Range(glibcs)) = 2
  /\ \E p \in running : \E q \in DOMAIN futures : StageIndex(q[2]) < StageIndex(p[2])
  /\ \A t \in Range(glibcs) : removed[build_dir(t)] >= 1

(* ------------------------------------------------------------------------ *)
(* C9 as stated: every submitted command has exactly one report line once   *)
(* the loop has handled it, PASS if and only if its exit status is 0 and    *)
(* FAIL otherwise, and no PASS or FAIL line exists for a pair not run.      *)
C9_AsClaimed ==
  /\ \A p \in DOMAIN futures :
       IF Handled(p)
       THEN /\ LinesOf(p, { "PASS" }) =
                 (IF ~futures[p].raised /\ futures[p].returncode = 0 THEN 1 ELSE 0)
            /\ LinesOf(p, { "PASS", "FAIL" }) = 1
       ELSE LinesOf(p, { "PASS", "FAIL" }) = 0
  /\ \A l \in DOMAIN report :
       l.kind \in { "PASS", "FAIL" } => Handled(<< l.abi, l.action >>)

(* C9, amended: every submitted command whose process was launched has      *)
(* exactly one report line once the loop has handled it, PASS if and only   *)
(* if its exit status is 0 and FAIL otherwise; a command whose launch       *)
(* raised has no PASS or FAIL line but one exception line naming its        *)
(* target; no PASS or FAIL line exists for a pair that was not run.         *)
C9_OneReportLine ==
  /\ \A p \in DOMAIN futures :
       IF Handled(p) /\ ~futures[p].raised
       THEN /\ LinesOf(p, { "PASS" }) = (IF futures[p].returncode = 0 THEN 1 ELSE 0)
            /\ LinesOf(p, { "PASS", "FAIL" }) = 1
       ELSE LinesOf(p, { "PASS", "FAIL" }) = 0
  /\ \A t \in Range(glibcs) :
       CopiesIn(ExceptionLine(t), report) =
         Cardinality({ p \in DOMAIN futures :
                         p[1] = t /\ Handled(p) /\ futures[p].raised })
  /\ \A l \in DOMAIN report :
       l.kind \in { "PASS", "FAIL" } => Handled(<< l.abi, l.action >>)

(* run has returned after printing a PASS line, a FAIL line and an          *)
(* exception line.                                                          *)
C9_Witness ==
  /\ pc = "done"
  /\ \E l \in DOMAIN report : l.kind = "PASS"
  /\ \E l \in DOMAIN report : l.kind = "FAIL"
  /\ \E l \in DOMAIN report : l.kind = "EXCEPTION"

(* ------------------------------------------------------------------------ *)
(* C10 as stated: a command whose process cannot be launched gets a FAIL    *)
(* line of its stage and target once the loop has handled it.               *)
C10_AsClaimed ==
  \A p \in DOMAIN futures :
    (LaunchFailed(p) /\ Handled(p)) => LinesOf(p, { "FAIL" }) >= 1

(* C10, amended: a command whose process cannot be launched is reported by  *)
(* an exception line naming its target, not by a FAIL line; the run is not  *)
(* abandoned, and when it has returned every requested target has had its   *)
(* command run for every stage of the chain.                                *)
C10_LaunchFailure ==
  \A p \in DOMAIN futures :
    LaunchFailed(p) =>
      /\ pc # "aborted"
      /\ Handled(p) =>
           /\ CopiesIn(ExceptionLine(p[1]), report) >= 1
           /\ LinesOf(p, { "PASS", "FAIL" }) = 0
      /\ pc = "done" =>
           \A t \in Range(glibcs) :
             \A s \in ChainStages : Finished(<< t, s >>)

(* run has returned; a launch failed at a stage where the other target's    *)
(* command exited 0, and the same target's command of a later stage was     *)
(* launched.                                                                *)
C10_Witness ==
  /\ pc = "done"
  /\ \E p \in DOMAIN futures :
       /\ LaunchFailed(p)
       /\ \E t \in Range(glibcs) :
            /\ t # p[1]
            /\ Finished(<< t, p[2] >>)
            /\ ~futures[<< t, p[2] >>].raised
            /\ futures[<< t, p[2] >>].returncode = 0
       /\ \E s \in ChainStages :
            /\ StageIndex(s) > StageIndex(p[2])
            /\ Finished(<< p[1], s >>)
            /\ ~futures[<< p[1], s >>].raised

(* ------------------------------------------------------------------------ *)
(* Vocabulary of the properties on the catalog, the settings file and the   *)
(* token list.                                                              *)

(* The settings file is missing, has no section glibc-tools, or the section *)
(* lacks one of the four keys.                                              *)
SettingsIncomplete ==
  \/ "glibc-tools" \notin DOMAIN inifile
  \/ \E key \in { "srcdir", "builddir", "logsdir", "compilers" } :
       key \notin DOMAIN inifile["glibc-tools"]

(* No command has been built or submitted, no log file has been created, no *)
(* build directory has been removed, and nothing has been printed.          *)
NoWork ==
  /\ cmds = << >>
  /\ futures = << >>
  /\ queue = << >>
  /\ logs = {}
  /\ \A d \in DOMAIN removed : removed[d] = 0
  /\ \A d \in DOMAIN dirs : dirs[d] \in InitialDirStates
  /\ out = << >>
  /\ report = EmptyBag

(* Two entries of the sequence are equal.                                   *)
Repeats(seq) ==
  Cardinality(Range(seq)) < Len(seq)

(* The names of the Configs and of the Glibcs the calls construct, in call  *)
(* order.                                                                   *)
ConfigNamesOf(calls) ==
  [ n \in 1..Len(calls) |-> Configs[calls[n]].name ]

GlibcNamesOf(calls) ==
  LET objects == AllGlibcs(calls)
  IN  [ n \in 1..Len(objects) |-> objects[n].name ]

(* What a token stands for: the members of the group it names, or itself.   *)
Image(c) ==
  IF c \in DOMAIN SPECIAL_LISTS THEN SPECIAL_LISTS[c] ELSE << c >>

(* The number of identifiers the tokens before the n-th stand for.          *)
RECURSIVE Offset(_, _)
Offset(tokens, n) ==
  IF n = 1 THEN 0
  ELSE Offset(tokens, n - 1) + Len(Image(tokens[n - 1]))

(* The identifiers of the lines list_configs printed.                       *)
Printed ==
  [ n \in 1..Len(out) |-> out[n].abi ]

(* The files among the log files created.                                   *)
LogFileNames ==
  { l.file : l \in logs }

(* ------------------------------------------------------------------------ *)
(* C11: with a settings file that is missing, has no section glibc-tools or *)
(* lacks one of srcdir, builddir, logsdir, compilers, main goes from        *)
(* read_config straight to exit with status 1, whatever the action, list    *)
(* included: no command is built or run, no log file is created, no build   *)
(* directory is removed and nothing is listed.                              *)
C11_InvalidSettingsExit ==
  SettingsIncomplete =>
    /\ pc \in { "main", "exit" }
    /\ pc = "exit" => exit_status = Some(1)
    /\ pc = "main" => exit_status = None
    /\ PATHS = << >>
    /\ NoWork

(* The process has exited on a settings file whose section lacks a key,     *)
(* with action list and a build directory left by an earlier run.           *)
C11_Witness ==
  /\ pc = "exit"
  /\ exit_status = Some(1)
  /\ opts.action = "list"
  /\ "glibc-tools" \in DOMAIN inifile
  /\ "srcdir" \notin DOMAIN inifile["glibc-tools"]
  /\ \E d \in DOMAIN dirs : dirs[d] = "used"

(* ------------------------------------------------------------------------ *)
(* C12: the process exits at catalog construction, with status 1, exactly   *)
(* when an add_config call registers a Config name or a Glibc name that is  *)
(* already stored; at that exit the settings file has not been read, no     *)
(* build directory has been removed and no command has been built or run.   *)
(* When the construction succeeds the catalog holds one key per Config and  *)
(* one key per Glibc constructed, each under its own name, so no name       *)
(* stands for two targets.                                                  *)
C12_DuplicateAborts ==
  /\ pc = "exit" =>
       /\ Repeats(ConfigNamesOf(all_configs)) \/ Repeats(GlibcNamesOf(all_configs))
       /\ exit_status = Some(1)
       /\ PATHS = << >>
       /\ NoWork
  /\ pc = "main" =>
       /\ ~Repeats(ConfigNamesOf(all_configs))
       /\ ~Repeats(GlibcNamesOf(all_configs))
       /\ ctx_configs = ConfigNamesOf(all_configs)
       /\ ctx_glibc_configs = GlibcNamesOf(all_configs)
  /\ pc \notin { "context", "main", "exit" } =>
       /\ ~Repeats(ctx_configs)
       /\ ~Repeats(ctx_glibc_configs)

(* The construction has ended the process on a Glibc name that an earlier   *)
(* call had registered, the two Configs having different names.             *)
C12_Witness ==
  /\ pc = "exit"
  /\ Len(all_configs) = 2
  /\ ~Repeats(ConfigNamesOf(all_configs))
  /\ Repeats(GlibcNamesOf(all_configs))
  /\ Len(ctx_configs) = 2

(* ------------------------------------------------------------------------ *)
(* C13: with an empty token list, the list of targets run acts on has one   *)
(* entry per Glibc registered in the catalog, extra_glibcs included, no     *)
(* entry twice, in ascending order of the names; for the calls of           *)
(* add_all_configs it is the list Python's sorted gives.  The list action   *)
(* prints that list, and the other actions store their commands under it.   *)
C13_AllTargetsSorted ==
  /\ (pc = "main" /\ all_configs = RegisteredCalls) =>
       /\ ctx_glibc_configs = glibc_configs_keys
       /\ ctx_configs = configs_keys
  /\ (opts.configs = << >> /\ pc \notin { "context", "main", "run", "exit" }) =>
       /\ Len(glibcs) = Len(AllGlibcs(all_configs))
       /\ Range(glibcs) = GlibcNames(all_configs)
       /\ \A n \in 1..(Len(glibcs) - 1) : str_lt(glibcs[n], glibcs[n + 1])
       /\ all_configs = RegisteredCalls => glibcs = sorted_glibc_configs
       /\ (opts.action = "list" /\ pc = "done") => Printed = glibcs
       /\ (opts.action # "list" /\ pc \in { "stage", "submit", "wait", "done" }) =>
            \A s \in ChainStages : cmds[s] = glibcs

(* A run without tokens has ended after acting on three targets, which were *)
(* registered in another order than the sorted one.                         *)
C13_Witness ==
  /\ pc = "done"
  /\ opts.configs = << >>
  /\ opts.action = "check"
  /\ Len(glibcs) = 3
  /\ glibcs # ctx_glibc_configs
  /\ \A t \in Range(glibcs) : Finished(<< t, "check" >>)

(* ------------------------------------------------------------------------ *)
(* C14: the expansion of a token list puts, at the place of each token and  *)
(* in the order of the tokens, the members of the group in the group's      *)
(* order when the token is a group alias and the token itself otherwise;    *)
(* the list action prints exactly that list.                                *)
C14_AliasInPlace ==
  (opts.configs # << >> /\ pc \in { "run", "done" }) =>
    /\ Len(glibcs) = Offset(opts.configs, Len(opts.configs) + 1)
    /\ \A n \in 1..Len(opts.configs) :
         SubSeq(glibcs, Offset(opts.configs, n) + 1,
                Offset(opts.configs, n) + Len(Image(opts.configs[n])))
           = Image(opts.configs[n])
    /\ pc = "done" => Printed = glibcs

(* A list of a plain token followed by a group alias has been printed.      *)
C14_Witness ==
  /\ pc = "done"
  /\ Len(opts.configs) = 2
  /\ opts.configs[1] \notin DOMAIN SPECIAL_LISTS
  /\ opts.configs[2] \in DOMAIN SPECIAL_LISTS
  /\ Len(out) = 1 + Len(SPECIAL_LISTS[opts.configs[2]])

(* ------------------------------------------------------------------------ *)
(* C15 as stated: the resolved list of targets holds no identifier twice.   *)
C15_AsClaimed ==
  pc \in { "run", "done" } => ~Repeats(glibcs)

(* C15: the resolved list is not deduplicated: an identifier occurs in it   *)
(* once for each token that is the identifier and once for each time it is  *)
(* a member of a group a token names, and the list action prints it that    *)
(* many times.                                                              *)
C15_Multiplicity ==
  (opts.configs # << >> /\ pc = "done") =>
    \A abi \in Range(glibcs) :
      /\ Occurrences(glibcs, abi) =
           Cardinality({ << n, m >> \in (1..Len(opts.configs)) \X (1..Len(glibcs)) :
                           /\ m <= Len(Image(opts.configs[n]))
                           /\ Image(opts.configs[n])[m] = abi })
      /\ Occurrences(Printed, abi) = Occurrences(glibcs, abi)

(* Two different groups with a common member have been listed, and the      *)
(* member has been printed twice.                                           *)
C15_Witness ==
  /\ pc = "done"
  /\ Len(opts.configs) = 2
  /\ opts.configs[1] # opts.configs[2]
  /\ \A n \in 1..2 : opts.configs[n] \in DOMAIN SPECIAL_LISTS
  /\ \E abi \in Range(glibcs) : Occurrences(Printed, abi) = 2

(* ------------------------------------------------------------------------ *)
(* C16 as stated: listing the single token arm prints eight identifiers,    *)
(* the members of the group.                                                *)
C16_AsClaimed ==
  (opts.configs = << "arm" >> /\ pc = "done") =>
    /\ Len(out) = 8
    /\ Printed = SPECIAL_LISTS["arm"]

(* C16: listing the single token arm prints nine identifiers, the members   *)
(* of the group arm in the group's order, one per line.                     *)
C16_ArmList ==
  (opts.configs = << "arm" >> /\ pc = "done") =>
    /\ Len(out) = 9
    /\ Printed = << "arm-linux-gnueabihf",
                    "arm-linux-gnueabihf-armv7-disable-multi-arch",
                    "armv5-linux-gnueabihf",
                    "armv6-linux-gnueabihf",
                    "armv6t2-linux-gnueabihf",
                    "armv7-linux-gnueabihf",
                    "armv7-neon-linux-gnueabihf",
                    "armv7-neonhard-linux-gnueabihf",
                    "armv7-thumb-linux-gnueabihf" >>
    /\ \A n \in 1..Len(out) : out[n].kind = "LIST"

(* The list of the single token arm has been printed.                       *)
C16_Witness ==
  /\ pc = "done"
  /\ opts.configs = << "arm" >>
  /\ out # << >>
  /\ out[Len(out)].abi = "armv7-thumb-linux-gnueabihf"

(* ------------------------------------------------------------------------ *)
(* C17: with action list, with or without the keep flag, run prints the     *)
(* expanded tokens as they are, names that are not in the catalog included, *)
(* and nothing else happens: no command is built, submitted or run, no log  *)
(* file is created and no build directory is removed.                       *)
C17_ListBypass ==
  opts.action = "list" =>
    /\ pc \in { "main", "run", "done", "exit" }
    /\ cmds = << >>
    /\ futures = << >>
    /\ queue = << >>
    /\ logs = {}
    /\ report = EmptyBag
    /\ \A d \in DOMAIN removed : removed[d] = 0
    /\ \A d \in DOMAIN dirs : dirs[d] \in InitialDirStates
    /\ pc # "done" => out = << >>
    /\ (pc = "done" /\ opts.configs # << >>) => Printed = Expand(opts.configs)
    /\ pc = "done" => \A n \in 1..Len(out) : out[n].kind = "LIST"

(* A list without the keep flag has printed a name that is not in the       *)
(* catalog, and the build directory of a listed target is as it was.        *)
C17_Witness ==
  /\ opts.action = "list"
  /\ ~opts.keep
  /\ pc = "done"
  /\ \E n \in 1..Len(out) : out[n].abi \notin glibc_configs
  /\ \E t \in Range(glibcs) : t \in glibc_configs /\ dirs[build_dir(t)] = "used"

(* ------------------------------------------------------------------------ *)
(* The run of C18: glibc-tools.py -p 1:4 configure x86_64-linux-gnu on the  *)
(* catalog of add_all_configs.                                              *)
ConfigureScenario ==
  /\ opts.action = "configure"
  /\ opts.configs = << "x86_64-linux-gnu" >>
  /\ opts.parallelize = parallelize_type("1:4")
  /\ all_configs = RegisteredCalls

(* C18 as stated: when that run has ended, the configure command is the     *)
(* only command submitted, it carries -j4, the pool has one worker and the  *)
(* log files are x86_64-linux-gnu_configure.out and .err.                   *)
C18_AsClaimed ==
  (ConfigureScenario /\ pc = "done") =>
    /\ DOMAIN futures = { << "x86_64-linux-gnu", "configure" >> }
    /\ "-j4" \in Range(Command("configure", "x86_64-linux-gnu"))
    /\ parallelize = 1
    /\ LogFileNames = { "/logs/x86_64-linux-gnu_configure.out",
                        "/logs/x86_64-linux-gnu_configure.err" }

(* C18: in that run the pool has one worker and build_jobs is 4; two        *)
(* commands are submitted and run for the target, one at a time: the        *)
(* configure command, which has no -j argument, then the copylibs command   *)
(* (cp); the log files are x86_64-linux-gnu_configure.out and .err and      *)
(* x86_64-linux-gnu_copylibs.out and .err.                                  *)
C18_ConfigureScenario ==
  ConfigureScenario =>
    /\ parallelize = 1
    /\ build_jobs = 4
    /\ Cardinality(running) <= 1
    /\ DOMAIN futures \subseteq { << "x86_64-linux-gnu", "configure" >>,
                                  << "x86_64-linux-gnu", "copylibs" >> }
    /\ Started(<< "x86_64-linux-gnu", "copylibs" >>) =>
         Finished(<< "x86_64-linux-gnu", "configure" >>)
    /\ pc = "done" =>
         /\ DOMAIN futures = { << "x86_64-linux-gnu", "configure" >>,
                               << "x86_64-linux-gnu", "copylibs" >> }
         /\ \A p \in DOMAIN futures : Finished(p)
         /\ LogFileNames = { "/logs/x86_64-linux-gnu_configure.out",
                             "/logs/x86_64-linux-gnu_configure.err",
                             "/logs/x86_64-linux-gnu_copylibs.out",
                             "/logs/x86_64-linux-gnu_copylibs.err" }
         /\ Command("configure", "x86_64-linux-gnu")[1] = "/src/configure"
         /\ "--host=x86_64-linux-gnu" \in Range(Command("configure", "x86_64-linux-gnu"))
         /\ \A n \in 1..8 :
              "-j" \o ToString(n) \notin Range(Command("configure", "x86_64-linux-gnu"))
         /\ Command("copylibs", "x86_64-linux-gnu")[1] = "cp"
         /\ Command("copylibs", "x86_64-linux-gnu")[4] = "/build/x86_64-linux-gnu-gcc12"

(* That run has ended, both commands having exited with status 0.           *)
C18_Witness ==
  /\ ConfigureScenario
  /\ pc = "done"
  /\ \A s \in { "configure", "copylibs" } :
       /\ << "x86_64-linux-gnu", s >> \in DOMAIN futures
       /\ futures[<< "x86_64-linux-gnu", s >>] = Returned(0)

(* ------------------------------------------------------------------------ *)
(* C19: every command a worker has started has its two log files,           *)
(* <logsdir>/<target>_<stage>.out and .err, no other log file exists, and   *)
(* the files of different (target, stage) pairs are different files: in     *)
(* particular commands that execute concurrently write to different files.  *)
C19_LogFiles ==
  /\ \A p \in DOMAIN futures :
       Started(p) =>
         \A ext \in { ".out", ".err" } :
           [ file   |-> PATHS.logsdir \o "/" \o p[1] \o "_" \o p[2] \o ext,
             abi    |-> p[1],
             action |-> p[2] ] \in logs
  /\ \A l \in logs : Started(<< l.abi, l.action >>)
  /\ Cardinality(logs) = 2 * Cardinality({ p \in DOMAIN futures : Started(p) })
  /\ Cardinality(LogFileNames) = Cardinality(logs)

(* Two commands are executing concurrently after an earlier bucket of two   *)
(* commands: eight log files exist.                                         *)
C19_Witness ==
  /\ Cardinality(running) = 2
  /\ Cardinality(LogFileNames) = 8

(* ------------------------------------------------------------------------ *)
(* C20: the build directories of two different catalog targets are          *)
(* different paths, and the commands that are executing at one moment are   *)
(* commands of different targets, each in a build directory of its own.     *)
C20_ExclusiveBuildDir ==
  /\ pc = "run" =>
       Cardinality({ build_dir(t) : t \in glibc_configs }) = Cardinality(glibc_configs)
  /\ pc \notin { "main", "exit" } =>
       \A a, b \in Range(glibcs) : a # b => build_dir(a) # build_dir(b)
  /\ \A p, q \in running :
       p # q => p[1] # q[1] /\ build_dir(p[1]) # build_dir(q[1])

(* The make commands of two targets are executing at the same time, each in *)
(* its own build directory.                                                 *)
C20_Witness ==
  /\ \E p, q \in running :
       /\ p[1] # q[1]
       /\ p[2] = "make"
       /\ q[2] = "make"
       /\ dirs[build_dir(p[1])] = "used"
       /\ dirs[build_dir(q[1])] = "used"

(* ------------------------------------------------------------------------ *)
(* Vocabulary of the properties of the fair runs and of the exit status.    *)

(* The main thread is inside the with block of the pool, glibc-tools.py:    *)
(* 193-212.                                                                 *)
InPool ==
  pc \in { "stage", "submit", "wait" }

(* Every command built has been submitted, has run to completion and has    *)
(* been handled by the as_completed loop, and no work item is left queued.  *)
Completed ==
  /\ \A s \in DOMAIN cmds :
       \A t \in Range(cmds[s]) :
         Finished(<< t, s >>) /\ Handled(<< t, s >>)
  /\ \A p \in DOMAIN futures : Finished(p)
  /\ queue = << >>

(* ------------------------------------------------------------------------ *)
(* C21: under the fair scheduling, in which every external command          *)
(* terminates, whatever has been submitted is eventually run to completion  *)
(* (returned or raised) with run outside the pool: once the pool is entered *)
(* run returns, and when it has returned every command it built has been    *)
(* submitted and has completed.  A submitted command stays submitted and a  *)
(* completed one stays completed, whatever the other commands do, and the   *)
(* run is never aborted once a command is submitted.                        *)
C21_AllComplete ==
  /\ []<>(~InPool /\ \A p \in DOMAIN futures : Finished(p))
  /\ [](pc = "done" => Completed)
  /\ [](futures # << >> => InPool \/ pc = "done")
  /\ [][\A p \in DOMAIN futures : /\ p \in DOMAIN futures'
                                   /\ Finished(p) => Finished(p)']_vars

(* run has returned after three commands of two targets, of which one       *)
(* exited nonzero at the first stage.                                       *)
C21_Witness ==
  /\ pc = "done"
  /\ Completed
  /\ Cardinality(DOMAIN futures) >= 3
  /\ \E p \in DOMAIN futures :
       ExitedNonzero(p) /\ \E q \in DOMAIN futures : q[1] # p[1]

(* ------------------------------------------------------------------------ *)
(* The exit status the command line, the settings file and the catalog      *)
(* determine: 1 for an incomplete settings file, 0 for list, 1 for an       *)
(* action with a chain and a token that expands to a name outside the       *)
(* catalog, and 0 otherwise.                                                *)
ExitStatusOf(o, catalog) ==
  IF SettingsIncomplete THEN 1
  ELSE IF o.action = "list" THEN 0
  ELSE IF /\ CMD_MAP(o.action) # << >>
          /\ \E t \in Range(Expand(o.configs)) : t \notin catalog
       THEN 1
       ELSE 0

(* C22: the exit status of the process is a function of the command line,   *)
(* the settings file and the catalog, none of which changes during the run: *)
(* it does not depend on how the external commands end, so two runs with    *)
(* the same arguments end with the same status.  In particular a run in     *)
(* which a command exited nonzero or could not be launched ends with 0.     *)
C22_ExitStatusOfArguments ==
  /\ [](exit_status # None =>
         exit_status = Some(ExitStatusOf(opts, Range(ctx_glibc_configs))))
  /\ [](Failures # {} => exit_status \in { None, Some(0) })
  /\ [][UNCHANGED << opts, inifile, ctx_glibc_configs >>]_vars

(* run has returned and the process has ended with status 0 after a command *)
(* exited nonzero.                                                          *)
C22_Witness ==
  /\ pc = "done"
  /\ exit_status = Some(0)
  /\ \E p \in DOMAIN futures : ExitedNonzero(p)

(* ------------------------------------------------------------------------ *)
(* The pair has at most one work item queued, and none once a worker has    *)
(* taken it.                                                                *)
QueuedOnce(p) ==
  /\ Occurrences(queue, p) <= 1
  /\ Started(p) => Occurrences(queue, p) = 0

(* C23: the actions check-abi, update-abi and bench-build run, for each      *)
(* requested target, the stages configure, make and the requested one, in   *)
(* that order and each once: no other stage is built, submitted or run, the *)
(* copylibs stage in particular, and when run has returned every requested  *)
(* target has run the three of them.                                        *)
C23_AbiChains ==
  opts.action \in { "check-abi", "update-abi", "bench-build" } =>
    /\ RunsInOrder(<< "configure", "make", opts.action >>)
    /\ \A p \in DOMAIN futures : p[2] # "copylibs" /\ QueuedOnce(p)
    /\ \A s \in DOMAIN cmds :
         s \notin { "configure", "make", opts.action } => cmds[s] = << >>
    /\ \A l \in logs : l.action \in { "configure", "make", opts.action }

(* An update-abi of two targets has returned with the six commands run.     *)
C23_Witness ==
  /\ opts.action = "update-abi"
  /\ pc = "done"
  /\ Cardinality(Range(glibcs)) = 2
  /\ Cardinality(DOMAIN futures) = 6
  /\ \A t \in Range(glibcs) :
       \A s \in { "configure", "make", "update-abi" } : Finished(<< t, s >>)

(* ------------------------------------------------------------------------ *)
(* The stages whose command is an invocation of make.                       *)
MakeStages ==
  { "make", "check", "check-abi", "update-abi", "bench-build" }

(* The command has exactly one argument that begins with -j, and it is -jM. *)
CarriesJobs(cmd, M) ==
  { cmd[n] : n \in { m \in 1..Len(cmd) : SubSeq(cmd[m], 1, 2) = "-j" } }
    = { "-j" \o ToString(M) }

(* The pool runs at most N commands at a time and every command of a make   *)
(* stage submitted so far carries -jM.                                      *)
ParallelismIs(N, M) ==
  /\ Cardinality(running) <= N
  /\ \A p \in DOMAIN futures :
       p[2] \in MakeStages => CarriesJobs(Command(p[2], p[1]), M)

(* C24: the value N:M of -p parses to the pool size N and the build-tool    *)
(* parallelism M, and the value N to the pool size N and the build-tool     *)
(* parallelism 1; in a run with that value at most N commands execute at a  *)
(* time, and every make, check, check-abi, update-abi and bench-build       *)
(* command carries the argument -jM.                                        *)
C24_Parallelism ==
  \A N \in 1..MaxWorkers, M \in 1..MaxJobs :
    /\ pc = "main" =>
         /\ parallelize_type(ToString(N) \o ":" \o ToString(M)) = << N, M >>
         /\ parallelize_type(ToString(N)) = << N, 1 >>
         /\ parallelize_type(ToString(10 + N) \o ":" \o ToString(10 * M)) = << 10 + N, 10 * M >>
    /\ opts.parallelize = parallelize_type(ToString(N) \o ":" \o ToString(M)) =>
         ParallelismIs(N, M)
    /\ opts.parallelize = parallelize_type(ToString(N)) =>
         ParallelismIs(N, 1)

(* With -p 2:4 two make check commands carrying -j4 execute at the same     *)
(* time.                                                                    *)
C24_Witness ==
  /\ opts.parallelize = parallelize_type("2:4")
  /\ Cardinality(running) = 2
  /\ \A p \in running :
       /\ p[2] = "check"
       /\ Command(p[2], p[1]) = << "make", "check", "run-built-tests=no", "-j4" >>

(* ------------------------------------------------------------------------ *)
(* C25: no step of a run submits a command for a (target, stage) pair for   *)
(* which a command has been submitted before, so at most one command is     *)
(* submitted for each pair, also when the target is several times in the    *)
(* resolved list of targets.                                                *)
C25_SubmitOnce ==
  [][\A p \in DOMAIN futures : queue' # Append(queue, p)]_vars

(* run has returned for a list that names one target twice, with one        *)
(* command run for each stage of a chain of four.                           *)
C25_Witness ==
  /\ pc = "done"
  /\ Len(glibcs) = 2
  /\ glibcs[1] = glibcs[2]
  /\ Cardinality(ChainStages) = 4
  /\ Cardinality(DOMAIN futures) = 4
  /\ \A s \in ChainStages : Finished(<< glibcs[1], s >>)

(* ------------------------------------------------------------------------ *)
(* C26 as stated: when run is aborted on a name that is not in the catalog, *)
(* no build directory has been removed or recreated and no command has been *)
(* run.                                                                     *)
C26_AsClaimed ==
  pc = "aborted" =>
    /\ \A d \in DOMAIN removed : removed[d] = 0
    /\ \A d \in DOMAIN dirs : dirs[d] \in InitialDirStates
    /\ futures = << >>
    /\ logs = {}

(* ------------------------------------------------------------------------ *)
(* The names of the groups of SPECIAL_LISTS, glibc-tools.py:566-737.        *)
GroupAliases ==
  { "linux", "abi", "abi32", "powerpc64le", "powerpc64", "powerpc",
    "zseries", "arm", "armeb" }

(* C27: when add_all_configs has run, the catalog is built (the process     *)
(* has not exited), the group aliases are the nine the table names, every   *)
(* member of every group is a key of the catalog, no alias is itself a key, *)
(* and so the expansion of an alias is a list of catalog targets.           *)
C27_AliasesKnown ==
  (pc \in { "main", "exit" } /\ all_configs = RegisteredCalls) =>
    /\ pc = "main"
    /\ DOMAIN SPECIAL_LISTS = GroupAliases
    /\ \A g \in DOMAIN SPECIAL_LISTS :
         /\ g \notin Range(ctx_glibc_configs)
         /\ SPECIAL_LISTS[g] # << >>
         /\ Range(SPECIAL_LISTS[g]) \subseteq Range(ctx_glibc_configs)
         /\ Range(Expand(<< g >>)) \subseteq Range(ctx_glibc_configs)

(* The catalog of add_all_configs is built, and the group abi32 has the     *)
(* member i686-linux-gnu, which is a key of the catalog though no Config    *)
(* has that name: a Glibc of the x86_64 Config registers it.                *)
C27_Witness ==
  /\ pc = "main"
  /\ all_configs = RegisteredCalls
  /\ Len(ctx_glibc_configs) = Len(AllGlibcs(RegisteredCalls))
  /\ "i686-linux-gnu" \in Range(SPECIAL_LISTS["abi32"])
  /\ "i686-linux-gnu" \in Range(ctx_glibc_configs)
  /\ "i686-linux-gnu" \notin Range(ctx_configs)

====
